---- MODULE Spec2Model ----
(***************************************************************************)
(* File-Manager: a command-line utility that creates, reads, appends to    *)
(* and deletes files and directories and records every successful          *)
(* operation in log.txt.  Every invocation is one process that runs        *)
(* main(): init_logging(), then one command.  Several invocations may run  *)
(* at once on the same working directory, so every system call is one      *)
(* atomic step of its process.                                             *)
(*                                                                         *)
(* Bytes are tokens: "\n" is the newline, a timestamp is the three tokens  *)
(* "[", digits, "]" (the clock value formatted by strftime), a path        *)
(* substituted by %s is one token.                                         *)
(***************************************************************************)
EXTENDS Integers, Sequences, FiniteSets, TLC

VARIABLES
    fs,      \* directory entries: path -> inode number, 0 when there is none
    kind,    \* inode -> "free", "file" or "dir"
    data,    \* inode -> content of a regular file
    lockEx,  \* inode -> process holding the exclusive flock, 0 when none
    now,     \* wall clock, in seconds
    build,   \* which append_to_file is compiled in: "fileops.c" or "part_001"
    scen,    \* the scenario: the command lines to run and a.txt's first content
    runs,    \* invocations started so far
    succ,    \* invocations that have exited with status 0 so far
    proc,    \* process -> its registers (position, arguments, locals)
    parser,  \* parse_command at work on one input line: its locals and the argument array
    mem,     \* main's argument strings: args, the alias g_args, and the heap blocks
    lister,  \* the child of list_directory at work on one directory stream
    strfmt   \* one call of string_format: its arguments, the buffer and the result

vars == <<fs, kind, data, lockEx, now, build, scen, runs, succ, proc, parser, mem, lister, strfmt>>

\* what no file operation changes
env == <<scen, parser, mem, lister, strfmt>>

fsvars == <<fs, kind, data, lockEx>>

----------------------------------------------------------------------------
(* Bounds of the model *)

NProcs == 2

MaxRuns == 2

MaxClock == 1

\* appends after the creation in the sequential scenarios
AppendCount == 3

\* invocations of one command in the same-command scenarios
SameCount == 3

\* invocations in a behaviour of SpecShow
ShowRuns == 3

\* characters of the longest input line parse_command is given, of all lines
MaxLine == 5

\* tokens of the longest input line made of one-letter tokens
MaxTokens == 6

\* characters of the longest format string_format is given
MaxFormat == 4

\* the largest buffer size string_format is given
MaxSize == 5

Procs == 1..NProcs

----------------------------------------------------------------------------
(* Paths and strings *)

LOG_FILE == "log.txt"

Paths == {LOG_FILE, "a.txt", "d", "d/f.txt"}

\* the directory a path is looked up in; "." is the working directory
Parent(path) == IF path = "d/f.txt" THEN "d" ELSE "."

\* d_name of a path's entry, as characters
Name(path) ==
    CASE path = LOG_FILE  -> <<"l", "o", "g", ".", "t", "x", "t">>
      [] path = "a.txt"   -> <<"a", ".", "t", "x", "t">>
      [] path = "d"       -> <<"d">>
      [] path = "d/f.txt" -> <<"f", ".", "t", "x", "t">>

NL == "\n"

\* #define MAX_ARGS 4
MAX_ARGS == 4

\* #define MAX_ARG_SIZE 256
MAX_ARG_SIZE == 256

\* arguments of appendToFile
Contents == {<<"x">>, <<"x", "y">>, <<"x", NL>>, <<>>}

\* arguments of listFilesByExtension
Extensions == {<<".", "t", "x", "t">>, <<"t">>}

NInodes == Cardinality(Paths) + NProcs

Inodes == 1..NInodes

----------------------------------------------------------------------------
(* utils: get_timestamp, string_format, file_exists, directory_exists *)

\* the digits strftime prints for the clock value t
ClockText(t) == <<"t0", "t1", "t2", "t3", "t4", "t5", "t6", "t7">>[t + 1]

\* strftime "[%Y-%m-%d %H:%M:%S]" of the clock value t
Timestamp(t) == <<"[", ClockText(t), "]">>

\* string_format of a format with one %s: the text before, the argument, the text after
Fmt1(pre, s, post) == <<pre, s, post>>

\* string_format of a format with two %s
Fmt2(pre, s1, mid, s2, post) == <<pre, s1, mid, s2, post>>

\* path resolution: every directory on the way exists
Resolves(path) ==
    \/ Parent(path) = "."
    \/ fs[Parent(path)] # 0 /\ kind[fs[Parent(path)]] = "dir"

\* stat(path) == 0
StatOk(path) == Resolves(path) /\ fs[path] # 0

file_exists(filename) == StatOk(filename) /\ kind[fs[filename]] = "file"

directory_exists(dirname) == StatOk(dirname) /\ kind[fs[dirname]] = "dir"

\* entries of the directory with inode i, besides . and ..
Entries(i) == {q \in Paths : Parent(q) # "." /\ fs[Parent(q)] = i /\ fs[q] # 0}

----------------------------------------------------------------------------
(* The kernel: inodes, descriptors, flock, write *)

OpenInodes == {proc[p].fd : p \in Procs} \ {0}

Linked(i) == \E q \in Paths : fs[q] = i

\* the inode a creation gets: the lowest that is neither linked nor open
FreshInode == CHOOSE i \in Inodes : kind[i] = "free" /\ \A j \in Inodes : kind[j] = "free" => i <= j

\* write(fd, buf, n) at offset off of content s: bytes from off on are replaced
WriteAt(s, off, buf) ==
    [k \in 1..(IF off + Len(buf) > Len(s) THEN off + Len(buf) ELSE Len(s)) |->
        IF k > off /\ k <= off + Len(buf) THEN buf[k - off] ELSE s[k]]

\* write on a descriptor opened with O_APPEND: always at the end
WriteAppend(s, buf) == s \o buf

\* the inode table after process p closes its descriptor on inode i: an
\* unlinked inode with no other descriptor is released
KindAfterClose(p, i) ==
    IF ~Linked(i) /\ \A q \in Procs \ {p} : proc[q].fd # i
        THEN [kind EXCEPT ![i] = "free"] ELSE kind

DataAfterClose(p, i) ==
    IF ~Linked(i) /\ \A q \in Procs \ {p} : proc[q].fd # i
        THEN [data EXCEPT ![i] = <<>>] ELSE data

\* flock(fd, LOCK_EX) can be granted to p: nobody else holds the lock
FlockFreeBug(i, p) == TRUE

FlockFree(i, p) ==
    /\ lockEx[i] = 0 \/ lockEx[i] = p
    /\ \A q \in Procs \ {p} : proc[q].shlock # i

\* flock(fd, LOCK_SH) can be granted: nobody holds the exclusive lock
SharedFreeBug(i) == TRUE

SharedFree(i) == lockEx[i] = 0

----------------------------------------------------------------------------
(* Process registers *)

Idle ==
    [pc |-> "idle", op |-> "none", path |-> "none", arg |-> <<>>,
     fd |-> 0, off |-> 0, size |-> 0, buf |-> <<>>, ts |-> 0, lts |-> 0,
     lastc |-> "none", empty |-> TRUE, written |-> 0,
     status |-> "none", result |-> "none", err |-> "none", out |-> <<>>,
     logmsg |-> <<>>, logrc |-> "none", logged |-> <<>>, ret |-> "none",
     ord |-> 0, alone |-> FALSE, prior |-> 0,
     argv |-> <<>>, errarg |-> "none", shlock |-> 0,
     loghad |-> FALSE, log0 |-> <<>>, initrc |-> "none",
     listed |-> {}, fault |-> "none"]

Ops == {"createFile", "readFile", "appendToFile", "deleteFile",
        "createDir", "listDir", "listFilesByExtension", "deleteDir"}

\* the first statement of each operation
FirstPc(op) ==
    CASE op = "createFile" -> "cf_check"
      [] op = "readFile" -> "rf_check"
      [] op = "appendToFile" -> "af_check"
      [] op = "deleteFile" -> "df_check"
      [] op = "createDir" -> "cd_check"
      [] op = "listDir" -> "ld_check"
      [] op = "listFilesByExtension" -> "le_check"
      [] op = "deleteDir" -> "dd_check"

Upd(p, r) == proc' = [proc EXCEPT ![p] = r]

FailBug(p, fmt) ==
    Upd(p, [proc[p] EXCEPT !.pc = "lo_open", !.logmsg = <<fmt>>, !.ret = "cd_report", !.err = fmt])

\* return -1 after writing the error message fmt to standard error
Fail(p, fmt) == Upd(p, [proc[p] EXCEPT !.pc = "done", !.result = "fail", !.err = fmt])

\* _exit(EXIT_FAILURE) of the child after writing the error message fmt
ChildFail(p, fmt, waitpc) ==
    Upd(p, [proc[p] EXCEPT !.pc = waitpc, !.status = "exit1", !.err = fmt])

----------------------------------------------------------------------------
(* main: one invocation *)

\* main() begins with the command line <op, path, arg>; a new invocation
\* takes the lowest free process slot
Start(p, op, path, arg) ==
    /\ proc[p].pc = "idle"
    /\ \A q \in Procs : q < p => proc[q].pc # "idle"
    /\ runs' = runs + 1
    /\ Upd(p, [Idle EXCEPT !.pc = "init_logging", !.op = op, !.path = path, !.arg = arg,
            !.ord = runs + 1, !.alone = \A q \in Procs : proc[q].pc = "idle",
            !.prior = succ])
    /\ UNCHANGED <<fsvars, now, build, env, succ>>

\* open(path, O_WRONLY | O_CREAT | O_APPEND) succeeds unless the path is a
\* directory
OpenAppendOk(path) == fs[path] = 0 \/ kind[fs[path]] = "file"

\* init_logging: open(LOG_FILE, O_WRONLY | O_CREAT | O_APPEND, 0644), close;
\* main ignores its result and dispatches the command
InitLoggingBug(p) ==
    /\ proc[p].pc = "init_logging"
    /\ IF OpenAppendOk(LOG_FILE)
          THEN /\ Upd(p, [proc[p] EXCEPT !.pc = IF proc[p].op \in Ops
                                                  THEN FirstPc(proc[p].op) ELSE "main_args",
                                         !.initrc = "ok"])
               /\ IF fs[LOG_FILE] = 0
                     THEN /\ fs' = [fs EXCEPT ![LOG_FILE] = FreshInode]
                          /\ kind' = [kind EXCEPT ![FreshInode] = "file"]
                          /\ data' = [data EXCEPT ![FreshInode] = <<>>]
                     ELSE UNCHANGED <<fs, kind, data>>
          ELSE /\ Upd(p, [proc[p] EXCEPT !.pc = "done", !.result = "fail", !.initrc = "fail",
                                         !.err = "Error: Could not initialize logging: %s\n"])
               /\ UNCHANGED <<fs, kind, data>>
    /\ UNCHANGED <<lockEx, now, build, env, runs, succ>>

InitLogging(p) ==
    /\ proc[p].pc = "init_logging"
    /\ IF fs[LOG_FILE] = 0
          THEN /\ fs' = [fs EXCEPT ![LOG_FILE] = FreshInode]
               /\ kind' = [kind EXCEPT ![FreshInode] = "file"]
               /\ data' = [data EXCEPT ![FreshInode] = <<>>]
          ELSE UNCHANGED <<fs, kind, data>>
    /\ Upd(p, [proc[p] EXCEPT !.pc = IF proc[p].op \in Ops THEN FirstPc(proc[p].op)
                                                          ELSE "main_args",
                              !.initrc = IF OpenAppendOk(LOG_FILE) THEN "ok" ELSE "fail"])
    /\ UNCHANGED <<lockEx, now, build, env, runs, succ>>

\* main returns and the process ends; its slot is free for the next invocation
\* what execute_command returned to main: 0, -1, or 1 for exit and quit
ReturnValue(result) == CASE result = "ok" -> 0 [] result = "exit" -> 1 [] OTHER -> -1

\* return (result < 0) ? EXIT_FAILURE : EXIT_SUCCESS
MainStatus(result) == IF result < 0 THEN 1 ELSE 0

Exit(p) ==
    /\ proc[p].pc = "done"
    /\ succ' = IF MainStatus(ReturnValue(proc[p].result)) = 0 THEN succ + 1 ELSE succ
    /\ Upd(p, Idle)
    /\ UNCHANGED <<fsvars, now, build, env, runs>>

\* time passes
Tick ==
    /\ now < MaxClock
    /\ now' = now + 1
    /\ UNCHANGED <<fsvars, build, env, runs, succ, proc>>

----------------------------------------------------------------------------
(* main and execute_command on an argument vector *)

Commands == Ops \cup {"showLogs", "exit", "quit", "help"}

\* a token that is no command, and one too long for the message buffer
UnknownToken == "fooBar"

LongToken == "zzzzzzzzzzzzzzzzzzzzzzzzzzzzzzzzzzzzzzzzzzzzzzzzzzzzzzzzzzzzzzzzzzzzzzzzzzzzzzzz"

\* strlen of the tokens whose length matters
TokLen(tok) == CASE tok = LongToken -> 80 [] tok = UnknownToken -> 6 [] OTHER -> 1

\* char error_msg[100]
ERROR_MSG_SIZE == 100

\* strlen("Error: Unknown command '")
UnknownPrefixLen == 24

\* the first n characters of a token
Truncate(tok, n) ==
    IF TokLen(tok) <= n THEN tok
    ELSE "zzzzzzzzzzzzzzzzzzzzzzzzzzzzzzzzzzzzzzzzzzzzzzzzzzzzzzzzzzzzzzzzzzzzzzzzzzz"

\* string_format(error_msg, sizeof(error_msg), "Error: Unknown command '%s'\n", args[0]):
\* the copy of %s stops at buffer_pos = size - 1, and so does the format
UnknownMessage(tok) ==
    LET room == ERROR_MSG_SIZE - 1 - UnknownPrefixLen
    IN  IF TokLen(tok) + 2 <= room
            THEN <<"Error: Unknown command '", tok, "'\n">>
            ELSE IF TokLen(tok) + 1 <= room
                THEN <<"Error: Unknown command '", tok, "'">>
                ELSE <<"Error: Unknown command '", Truncate(tok, room)>>

\* the characters of a content or extension argument
Text(tok) ==
    CASE tok = "x" -> <<"x">>
      [] tok = ".txt" -> <<".", "t", "x", "t">>
      [] OTHER -> <<tok>>

HelpText == "Usage: fileManager <command> [arguments]\n\nCommands: ..."

\* main() begins with the argument vector argv[1..]; the log is noted as it
\* is before init_logging
StartArgv(p, argv) ==
    /\ proc[p].pc = "idle"
    /\ \A q \in Procs : q < p => proc[q].pc # "idle"
    /\ runs' = runs + 1
    /\ Upd(p, [Idle EXCEPT !.pc = "init_logging", !.argv = argv,
            !.ord = runs + 1, !.alone = \A q \in Procs : proc[q].pc = "idle",
            !.prior = succ, !.loghad = fs[LOG_FILE] # 0,
            !.log0 = IF fs[LOG_FILE] # 0 THEN data[fs[LOG_FILE]] ELSE <<>>])
    /\ UNCHANGED <<fsvars, now, build, env, succ>>

\* main after init_logging: argc == 1 shows the help; more than MAX_ARGS
\* arguments are refused; otherwise the arguments are copied and the command
\* is executed
M_Args(p) ==
    /\ proc[p].pc = "main_args"
    /\ LET argc == Len(proc[p].argv) + 1 IN
        IF argc = 1
            THEN Upd(p, [proc[p] EXCEPT !.pc = "done", !.result = "ok",
                                        !.out = Append(@, <<HelpText>>)])
        ELSE IF argc - 1 > MAX_ARGS
            THEN Fail(p, "Error: Too many arguments\n")
        ELSE Upd(p, [proc[p] EXCEPT !.pc = "execute"])
    /\ UNCHANGED <<fsvars, now, build, env, runs, succ>>

\* the number of tokens execute_command requires for an operation
Required(cmd) == IF cmd \in {"listFilesByExtension", "appendToFile"} THEN 3 ELSE 2

ArityError(cmd) ==
    CASE cmd = "createDir" -> "Error: createDir requires one argument\n"
      [] cmd = "createFile" -> "Error: createFile requires one argument\n"
      [] cmd = "listDir" -> "Error: listDir requires one argument\n"
      [] cmd = "listFilesByExtension" -> "Error: listFilesByExtension requires two arguments\n"
      [] cmd = "readFile" -> "Error: readFile requires one argument\n"
      [] cmd = "appendToFile" -> "Error: appendToFile requires two arguments\n"
      [] cmd = "deleteFile" -> "Error: deleteFile requires one argument\n"
      [] cmd = "deleteDir" -> "Error: deleteDir requires one argument\n"

\* the last branch of execute_command: the message is written to standard
\* error and -1 is returned
UnknownCommandBug(p, cmd) ==
    Upd(p, [proc[p] EXCEPT !.pc = "lo_open", !.logmsg = UnknownMessage(cmd),
                           !.ret = "cd_report", !.err = "Error: Unknown command '%s'\n",
                           !.errarg = UnknownMessage(cmd)])

UnknownCommand(p, cmd) ==
    Upd(p, [proc[p] EXCEPT !.pc = "done", !.result = "fail",
                           !.err = "Error: Unknown command '%s'\n",
                           !.errarg = UnknownMessage(cmd)])

\* execute_command(args, arg_count)
Execute(p) ==
    /\ proc[p].pc = "execute"
    /\ LET args == proc[p].argv
           arg_count == Len(args)
           cmd == args[1]
       IN  IF cmd \in Ops
               THEN IF arg_count # Required(cmd)
                       THEN Fail(p, ArityError(cmd))
                       ELSE Upd(p, [proc[p] EXCEPT !.pc = FirstPc(cmd), !.op = cmd,
                                       !.path = args[2],
                                       !.arg = IF Required(cmd) = 3 THEN Text(args[3]) ELSE <<>>])
           ELSE IF cmd = "showLogs"
               THEN Upd(p, [proc[p] EXCEPT !.pc = "sl_stat", !.op = cmd])
           ELSE IF cmd \in {"exit", "quit"}
               THEN Upd(p, [proc[p] EXCEPT !.pc = "done", !.op = cmd, !.result = "exit"])
           ELSE IF cmd = "help"
               THEN Upd(p, [proc[p] EXCEPT !.pc = "done", !.op = cmd, !.result = "ok",
                                           !.out = Append(@, <<HelpText>>)])
           ELSE UnknownCommand(p, cmd)
    /\ UNCHANGED <<fsvars, now, build, env, runs, succ>>

----------------------------------------------------------------------------
(* logging.c: log_operation(message), called with proc[p].logmsg and        *)
(* returning to proc[p].ret; every caller ignores its result                *)

\* string_format(log_entry, "%s %s\n", timestamp, message)
LogEntry(t, message) == Timestamp(t) \o <<" ">> \o message \o <<NL>>

\* the call: the caller's message and the statement to go on with
CallLog(r, message, retpc) ==
    [r EXCEPT !.pc = "lo_open", !.logmsg = message, !.ret = retpc]

LO_OpenBug(p) ==
    /\ proc[p].pc = "lo_open"
    /\ IF file_exists(LOG_FILE)
          THEN Upd(p, [proc[p] EXCEPT !.pc = "lo_lock", !.fd = fs[LOG_FILE]])
          ELSE Upd(p, [proc[p] EXCEPT !.pc = "done", !.logrc = "fail", !.result = "fail"])
    /\ UNCHANGED <<fsvars, now, build, env, runs, succ>>

\* open(LOG_FILE, O_WRONLY | O_APPEND): no O_CREAT, so a missing log (or a
\* directory of that name) makes log_operation return -1
LO_Open(p) ==
    /\ proc[p].pc = "lo_open"
    /\ IF file_exists(LOG_FILE)
          THEN Upd(p, [proc[p] EXCEPT !.pc = "lo_lock", !.fd = fs[LOG_FILE]])
          ELSE Upd(p, [proc[p] EXCEPT !.pc = proc[p].ret, !.logrc = "fail"])
    /\ UNCHANGED <<fsvars, now, build, env, runs, succ>>

\* flock(fd, LOCK_EX): blocks until the lock is free
LO_Lock(p) ==
    /\ proc[p].pc = "lo_lock"
    /\ FlockFree(proc[p].fd, p)
    /\ lockEx' = [lockEx EXCEPT ![proc[p].fd] = p]
    /\ Upd(p, [proc[p] EXCEPT !.pc = "lo_ts"])
    /\ UNCHANGED <<fs, kind, data, now, build, env, runs, succ>>

\* get_timestamp(timestamp, sizeof(timestamp))
LO_Timestamp(p) ==
    /\ proc[p].pc = "lo_ts"
    /\ Upd(p, [proc[p] EXCEPT !.pc = "lo_write", !.lts = now])
    /\ UNCHANGED <<fsvars, now, build, env, runs, succ>>

\* write(fd, log_entry, entry_len): one write of the whole entry
LO_Write(p) ==
    /\ proc[p].pc = "lo_write"
    /\ LET entry == LogEntry(proc[p].lts, proc[p].logmsg) IN
        /\ data' = [data EXCEPT ![proc[p].fd] = WriteAppend(@, entry)]
        /\ Upd(p, [proc[p] EXCEPT !.pc = "lo_unlock", !.logged = Append(@, entry)])
    /\ UNCHANGED <<fs, kind, lockEx, now, build, env, runs, succ>>

\* flock(fd, LOCK_UN)
LO_Unlock(p) ==
    /\ proc[p].pc = "lo_unlock"
    /\ lockEx' = [lockEx EXCEPT ![proc[p].fd] = 0]
    /\ Upd(p, [proc[p] EXCEPT !.pc = "lo_close"])
    /\ UNCHANGED <<fs, kind, data, now, build, env, runs, succ>>

\* close(fd); return 0
LO_Close(p) ==
    /\ proc[p].pc = "lo_close"
    /\ kind' = KindAfterClose(p, proc[p].fd)
    /\ data' = DataAfterClose(p, proc[p].fd)
    /\ Upd(p, [proc[p] EXCEPT !.pc = proc[p].ret, !.fd = 0, !.logrc = "ok"])
    /\ UNCHANGED <<fs, lockEx, now, build, env, runs, succ>>

log_operation(p) ==
    \/ LO_Open(p) \/ LO_Lock(p) \/ LO_Timestamp(p)
    \/ LO_Write(p) \/ LO_Unlock(p) \/ LO_Close(p)

----------------------------------------------------------------------------
(* fileops.c: create_file(filename) *)

CreateFileLogMsg(filename) == Fmt1("File \"", filename, "\" created successfully.")

\* if (file_exists(filename)) ... return -1
CF_Check(p) ==
    /\ proc[p].pc = "cf_check"
    /\ IF file_exists(proc[p].path)
          THEN Fail(p, "Error: File \"%s\" already exists.\n")
          ELSE Upd(p, [proc[p] EXCEPT !.pc = "cf_open"])
    /\ UNCHANGED <<fsvars, now, build, env, runs, succ>>

\* open(filename, O_WRONLY | O_CREAT | O_EXCL, 0644) succeeds: nothing has
\* the name and its directory exists
ExclCreateOkBug(path) == Resolves(path)

ExclCreateOk(path) == Resolves(path) /\ fs[path] = 0

CF_Open(p) ==
    /\ proc[p].pc = "cf_open"
    /\ IF ExclCreateOk(proc[p].path)
          THEN /\ fs' = [fs EXCEPT ![proc[p].path] = FreshInode]
               /\ kind' = [kind EXCEPT ![FreshInode] = "file"]
               /\ data' = [data EXCEPT ![FreshInode] = <<>>]
               /\ Upd(p, [proc[p] EXCEPT !.pc = "cf_write", !.fd = FreshInode, !.off = 0])
          ELSE /\ Fail(p, "Error: Could not create file \"%s\": %s\n")
               /\ UNCHANGED <<fs, kind, data>>
    /\ UNCHANGED <<lockEx, now, build, env, runs, succ>>

\* get_timestamp(timestamp); write(fd, timestamp, strlen(timestamp))
CF_Write(p) ==
    /\ proc[p].pc = "cf_write"
    /\ data' = [data EXCEPT ![proc[p].fd] = WriteAt(@, proc[p].off, Timestamp(now))]
    /\ Upd(p, [proc[p] EXCEPT !.pc = "cf_close", !.ts = now,
                              !.off = @ + Len(Timestamp(now))])
    /\ UNCHANGED <<fs, kind, lockEx, now, build, env, runs, succ>>

\* close(fd); log_operation(log_msg)
CF_Close(p) ==
    /\ proc[p].pc = "cf_close"
    /\ kind' = KindAfterClose(p, proc[p].fd)
    /\ data' = DataAfterClose(p, proc[p].fd)
    /\ Upd(p, CallLog([proc[p] EXCEPT !.fd = 0, !.off = 0],
                      CreateFileLogMsg(proc[p].path), "cf_report"))
    /\ UNCHANGED <<fs, lockEx, now, build, env, runs, succ>>

\* write(STDOUT_FILENO, success_msg, len); return 0
CF_Report(p) ==
    /\ proc[p].pc = "cf_report"
    /\ Upd(p, [proc[p] EXCEPT !.pc = "done", !.result = "ok",
            !.out = Append(@, Fmt1("File \"", proc[p].path, "\" created successfully.\n"))])
    /\ UNCHANGED <<fsvars, now, build, env, runs, succ>>

create_file(p) ==
    \/ CF_Check(p) \/ CF_Open(p) \/ CF_Write(p) \/ CF_Close(p) \/ CF_Report(p)

----------------------------------------------------------------------------
(* fileops.c: read_file(filename) *)

ReadFileLogMsg(filename) == Fmt1("File \"", filename, "\" read successfully.")

\* if (!file_exists(filename)) ... return -1
RF_Check(p) ==
    /\ proc[p].pc = "rf_check"
    /\ IF file_exists(proc[p].path)
          THEN Upd(p, [proc[p] EXCEPT !.pc = "rf_open"])
          ELSE Fail(p, "Error: File \"%s\" not found.\n")
    /\ UNCHANGED <<fsvars, now, build, env, runs, succ>>

RF_OpenBug(p) ==
    /\ proc[p].pc = "rf_open"
    /\ IF StatOk(proc[p].path)
          THEN /\ Upd(p, [proc[p] EXCEPT !.pc = "rf_stat", !.fd = fs[proc[p].path], !.off = 0])
               /\ data' = [data EXCEPT ![fs[proc[p].path]] = <<>>]
          ELSE /\ Fail(p, "Error: Could not open file \"%s\": %s\n")
               /\ UNCHANGED data
    /\ UNCHANGED <<fs, kind, lockEx, now, build, env, runs, succ>>

\* open(filename, O_RDONLY)
RF_Open(p) ==
    /\ proc[p].pc = "rf_open"
    /\ IF StatOk(proc[p].path)
          THEN Upd(p, [proc[p] EXCEPT !.pc = "rf_stat", !.fd = fs[proc[p].path], !.off = 0])
          ELSE Fail(p, "Error: Could not open file \"%s\": %s\n")
    /\ UNCHANGED <<fsvars, now, build, env, runs, succ>>

\* fstat(fd, &st); malloc(st.st_size + 1)
RF_Stat(p) ==
    /\ proc[p].pc = "rf_stat"
    /\ Upd(p, [proc[p] EXCEPT !.pc = "rf_read", !.size = Len(data[proc[p].fd])])
    /\ UNCHANGED <<fsvars, now, build, env, runs, succ>>

\* read(fd, buffer, st.st_size): the bytes from the offset on, st_size at most
ReadBytesBug(s, off, n) == SubSeq(s, off + 1, off + n - 1)

ReadBytes(s, off, n) ==
    SubSeq(s, off + 1, IF off + n < Len(s) THEN off + n ELSE Len(s))

RF_Read(p) ==
    /\ proc[p].pc = "rf_read"
    /\ IF kind[proc[p].fd] = "file"
          THEN /\ Upd(p, [proc[p] EXCEPT !.pc = "rf_close",
                    !.buf = ReadBytes(data[proc[p].fd], proc[p].off, proc[p].size)])
               /\ UNCHANGED <<kind, data>>
          ELSE /\ kind' = KindAfterClose(p, proc[p].fd)
               /\ data' = DataAfterClose(p, proc[p].fd)
               /\ Upd(p, [proc[p] EXCEPT !.pc = "done", !.result = "fail", !.fd = 0,
                    !.err = "Error: Could not read file \"%s\": %s\n"])
    /\ UNCHANGED <<fs, lockEx, now, build, env, runs, succ>>

\* close(fd); log_operation(log_msg)
RF_Close(p) ==
    /\ proc[p].pc = "rf_close"
    /\ kind' = KindAfterClose(p, proc[p].fd)
    /\ data' = DataAfterClose(p, proc[p].fd)
    /\ Upd(p, CallLog([proc[p] EXCEPT !.fd = 0, !.off = 0],
                      ReadFileLogMsg(proc[p].path), "rf_print"))
    /\ UNCHANGED <<fs, lockEx, now, build, env, runs, succ>>

\* what read_file writes to standard output: the header, the buffer, and a
\* newline if the buffer does not end with one
ReadFileOutput(filename, buffer) ==
    <<Fmt1("Contents of \"", filename, "\":\n"), buffer>>
        \o (IF Len(buffer) > 0 /\ buffer[Len(buffer)] # NL THEN <<(<<NL>>)>> ELSE <<>>)

RF_Print(p) ==
    /\ proc[p].pc = "rf_print"
    /\ Upd(p, [proc[p] EXCEPT !.pc = "done", !.result = "ok",
            !.out = @ \o ReadFileOutput(proc[p].path, proc[p].buf)])
    /\ UNCHANGED <<fsvars, now, build, env, runs, succ>>

read_file(p) ==
    \/ RF_Check(p) \/ RF_Open(p) \/ RF_Stat(p) \/ RF_Read(p) \/ RF_Close(p) \/ RF_Print(p)

----------------------------------------------------------------------------
(* logging.c: show_logs *)

\* stat(LOG_FILE): without a log there is nothing to show
SL_Stat(p) ==
    /\ proc[p].pc = "sl_stat"
    /\ IF StatOk(LOG_FILE)
          THEN Upd(p, [proc[p] EXCEPT !.pc = "sl_open"])
          ELSE Upd(p, [proc[p] EXCEPT !.pc = "done", !.result = "ok",
                          !.out = Append(@, <<"No logs available.\n">>)])
    /\ UNCHANGED <<fsvars, now, build, env, runs, succ>>

\* open(LOG_FILE, O_RDONLY)
SL_Open(p) ==
    /\ proc[p].pc = "sl_open"
    /\ IF StatOk(LOG_FILE)
          THEN Upd(p, [proc[p] EXCEPT !.pc = "sl_lock", !.fd = fs[LOG_FILE]])
          ELSE Fail(p, "Error: Could not open log file: %s\n")
    /\ UNCHANGED <<fsvars, now, build, env, runs, succ>>

\* flock(fd, LOCK_SH) blocks while a writer holds the exclusive lock
SL_Lock(p) ==
    /\ proc[p].pc = "sl_lock"
    /\ SharedFree(proc[p].fd)
    /\ Upd(p, [proc[p] EXCEPT !.pc = "sl_fstat", !.shlock = proc[p].fd])
    /\ UNCHANGED <<fsvars, now, build, env, runs, succ>>

\* fstat(fd): an empty log is reported as such
SL_Fstat(p) ==
    /\ proc[p].pc = "sl_fstat"
    /\ LET size == Len(data[proc[p].fd]) IN
        IF kind[proc[p].fd] = "file" /\ size = 0
            THEN Upd(p, [proc[p] EXCEPT !.pc = "sl_eunlock", !.size = 0,
                            !.out = Append(@, <<"Log file is empty.\n">>)])
            ELSE Upd(p, [proc[p] EXCEPT !.pc = "sl_read", !.size = size])
    /\ UNCHANGED <<fsvars, now, build, env, runs, succ>>

\* read(fd, buffer, st.st_size); a failed read frees the buffer, unlocks and closes
SL_Read(p) ==
    /\ proc[p].pc = "sl_read"
    /\ IF kind[proc[p].fd] = "file"
          THEN /\ Upd(p, [proc[p] EXCEPT !.pc = "sl_unlock",
                             !.buf = ReadBytes(data[proc[p].fd], 0, proc[p].size)])
               /\ UNCHANGED fsvars
          ELSE /\ Upd(p, [proc[p] EXCEPT !.pc = "done", !.result = "fail",
                             !.err = "Error: Could not read log file: %s\n",
                             !.shlock = 0, !.fd = 0])
               /\ kind' = KindAfterClose(p, proc[p].fd)
               /\ data' = DataAfterClose(p, proc[p].fd)
               /\ UNCHANGED <<fs, lockEx>>
    /\ UNCHANGED <<now, build, env, runs, succ>>

\* flock(fd, LOCK_UN)
SL_Unlock(p) ==
    /\ proc[p].pc \in {"sl_unlock", "sl_eunlock"}
    /\ Upd(p, [proc[p] EXCEPT !.pc = IF @ = "sl_unlock" THEN "sl_close" ELSE "sl_eclose",
                              !.shlock = 0])
    /\ UNCHANGED <<fsvars, now, build, env, runs, succ>>

\* close(fd)
SL_Close(p) ==
    /\ proc[p].pc \in {"sl_close", "sl_eclose"}
    /\ IF proc[p].pc = "sl_close"
          THEN Upd(p, [proc[p] EXCEPT !.pc = "sl_print", !.fd = 0])
          ELSE Upd(p, [proc[p] EXCEPT !.pc = "done", !.result = "ok", !.fd = 0])
    /\ kind' = KindAfterClose(p, proc[p].fd)
    /\ data' = DataAfterClose(p, proc[p].fd)
    /\ UNCHANGED <<fs, lockEx, now, build, env, runs, succ>>

\* the header, the buffer, and a newline when the buffer does not end in one
SL_PrintBug(p) ==
    /\ proc[p].pc = "sl_print"
    /\ Upd(p, [proc[p] EXCEPT !.pc = "done", !.result = "ok",
                  !.out = @ \o <<(<<"Operation Logs:\n">>), proc[p].buf, <<NL>> >>])
    /\ UNCHANGED <<fsvars, now, build, env, runs, succ>>

SL_Print(p) ==
    /\ proc[p].pc = "sl_print"
    /\ LET buffer == proc[p].buf
           tail == IF Len(buffer) > 0 /\ buffer[Len(buffer)] # NL THEN <<NL>> ELSE <<>>
       IN  Upd(p, [proc[p] EXCEPT !.pc = "done", !.result = "ok",
                      !.out = @ \o <<(<<"Operation Logs:\n">>), buffer>> \o
                              (IF tail = <<>> THEN <<>> ELSE <<tail>>)])
    /\ UNCHANGED <<fsvars, now, build, env, runs, succ>>

show_logs(p) ==
    \/ SL_Stat(p) \/ SL_Open(p) \/ SL_Lock(p) \/ SL_Fstat(p) \/ SL_Read(p)
    \/ SL_Unlock(p) \/ SL_Close(p) \/ SL_Print(p)

----------------------------------------------------------------------------
(* fileops.c: append_to_file(filename, content), in the calling process    *)
(* with a blocking lock                                                    *)

AppendLogMsgInProc(filename) ==
    Fmt1("Content appended to file \"", filename, "\" successfully.")

\* open(filename, O_WRONLY | O_APPEND) succeeds
OpenWriteOk(path) == StatOk(path) /\ kind[fs[path]] = "file"

AF_Check(p) ==
    /\ proc[p].pc = "af_check"
    /\ build = "fileops.c"
    /\ IF file_exists(proc[p].path)
          THEN Upd(p, [proc[p] EXCEPT !.pc = "af_open"])
          ELSE Fail(p, "Error: File \"%s\" not found.\n")
    /\ UNCHANGED <<fsvars, now, build, env, runs, succ>>

AF_Open(p) ==
    /\ proc[p].pc = "af_open"
    /\ IF OpenWriteOk(proc[p].path)
          THEN Upd(p, [proc[p] EXCEPT !.pc = "af_lock", !.fd = fs[proc[p].path]])
          ELSE Fail(p, "Error: Could not open file \"%s\": %s\n")
    /\ UNCHANGED <<fsvars, now, build, env, runs, succ>>

\* flock(fd, LOCK_EX): blocks until the lock is free
AF_Lock(p) ==
    /\ proc[p].pc = "af_lock"
    /\ FlockFree(proc[p].fd, p)
    /\ lockEx' = [lockEx EXCEPT ![proc[p].fd] = p]
    /\ Upd(p, [proc[p] EXCEPT !.pc = "af_nl"])
    /\ UNCHANGED <<fs, kind, data, now, build, env, runs, succ>>

\* write(fd, "\n", 1): unconditional
AF_WriteNewline(p) ==
    /\ proc[p].pc = "af_nl"
    /\ data' = [data EXCEPT ![proc[p].fd] = WriteAppend(@, <<NL>>)]
    /\ Upd(p, [proc[p] EXCEPT !.pc = "af_write"])
    /\ UNCHANGED <<fs, kind, lockEx, now, build, env, runs, succ>>

\* write(fd, content, strlen(content))
AF_WriteContent(p) ==
    /\ proc[p].pc = "af_write"
    /\ data' = [data EXCEPT ![proc[p].fd] = WriteAppend(@, proc[p].arg)]
    /\ Upd(p, [proc[p] EXCEPT !.pc = "af_unlock"])
    /\ UNCHANGED <<fs, kind, lockEx, now, build, env, runs, succ>>

AF_UnlockBug(p) ==
    /\ proc[p].pc = "af_unlock"
    /\ Upd(p, [proc[p] EXCEPT !.pc = "af_close"])
    /\ UNCHANGED <<fsvars, now, build, env, runs, succ>>

AF_Unlock(p) ==
    /\ proc[p].pc = "af_unlock"
    /\ lockEx' = [lockEx EXCEPT ![proc[p].fd] = 0]
    /\ Upd(p, [proc[p] EXCEPT !.pc = "af_close"])
    /\ UNCHANGED <<fs, kind, data, now, build, env, runs, succ>>

AF_Close(p) ==
    /\ proc[p].pc = "af_close"
    /\ kind' = KindAfterClose(p, proc[p].fd)
    /\ data' = DataAfterClose(p, proc[p].fd)
    /\ Upd(p, CallLog([proc[p] EXCEPT !.fd = 0],
                      AppendLogMsgInProc(proc[p].path), "af_report"))
    /\ UNCHANGED <<fs, lockEx, now, build, env, runs, succ>>

AF_Report(p) ==
    /\ proc[p].pc = "af_report"
    /\ Upd(p, [proc[p] EXCEPT !.pc = "done", !.result = "ok",
            !.out = Append(@, Fmt1("Content appended to file \"", proc[p].path,
                                   "\" successfully.\n"))])
    /\ UNCHANGED <<fsvars, now, build, env, runs, succ>>

append_to_file_inproc(p) ==
    \/ AF_Check(p) \/ AF_Open(p) \/ AF_Lock(p) \/ AF_WriteNewline(p)
    \/ AF_WriteContent(p) \/ AF_Unlock(p) \/ AF_Close(p) \/ AF_Report(p)

----------------------------------------------------------------------------
(* part_001: append_to_file(filename, content), in a child process with a  *)
(* non-blocking lock                                                       *)

AppendLogMsgChild(filename) == Fmt1("Content appended to file \"", filename, "\".")

\* if (!file_exists(filename)) ... return -1; fork()
AC_Check(p) ==
    /\ proc[p].pc = "af_check"
    /\ build = "part_001"
    /\ IF file_exists(proc[p].path)
          THEN Upd(p, [proc[p] EXCEPT !.pc = "ac_open"])
          ELSE Fail(p, "Error: File \"%s\" does not exist\n")
    /\ UNCHANGED <<fsvars, now, build, env, runs, succ>>

\* child: open(filename, O_RDWR | O_APPEND)
AC_Open(p) ==
    /\ proc[p].pc = "ac_open"
    /\ IF OpenWriteOk(proc[p].path)
          THEN Upd(p, [proc[p] EXCEPT !.pc = "ac_lock", !.fd = fs[proc[p].path], !.off = 0])
          ELSE ChildFail(p, "Error: Could not open file \"%s\": %s\n", "ac_wait")
    /\ UNCHANGED <<fsvars, now, build, env, runs, succ>>

AC_LockBug(p) ==
    /\ proc[p].pc = "ac_lock"
    /\ FlockFree(proc[p].fd, p)
    /\ lockEx' = [lockEx EXCEPT ![proc[p].fd] = p]
    /\ Upd(p, [proc[p] EXCEPT !.pc = "ac_stat"])
    /\ UNCHANGED <<fs, kind, data, now, build, env, runs, succ>>

\* child: flock(fd, LOCK_EX | LOCK_NB): EWOULDBLOCK when another process
\* holds the lock; then close(fd); _exit(EXIT_FAILURE)
AC_Lock(p) ==
    /\ proc[p].pc = "ac_lock"
    /\ IF FlockFree(proc[p].fd, p)
          THEN /\ lockEx' = [lockEx EXCEPT ![proc[p].fd] = p]
               /\ Upd(p, [proc[p] EXCEPT !.pc = "ac_stat"])
               /\ UNCHANGED <<kind, data>>
          ELSE /\ kind' = KindAfterClose(p, proc[p].fd)
               /\ data' = DataAfterClose(p, proc[p].fd)
               /\ Upd(p, [proc[p] EXCEPT !.pc = "ac_wait", !.status = "exit1", !.fd = 0,
                    !.err = "Error: Cannot write to \"%s\". File is locked or read-only.\n"])
               /\ UNCHANGED lockEx
    /\ UNCHANGED <<fs, now, build, env, runs, succ>>

\* child: fstat(fd, &st); if (st.st_size > 0) ...
AC_Stat(p) ==
    /\ proc[p].pc = "ac_stat"
    /\ Upd(p, [proc[p] EXCEPT !.size = Len(data[proc[p].fd]),
            !.pc = IF Len(data[proc[p].fd]) > 0 THEN "ac_seek" ELSE "ac_write"])
    /\ UNCHANGED <<fsvars, now, build, env, runs, succ>>

\* child: lseek(fd, -1, SEEK_END) >= 0
AC_Seek(p) ==
    /\ proc[p].pc = "ac_seek"
    /\ IF Len(data[proc[p].fd]) >= 1
          THEN Upd(p, [proc[p] EXCEPT !.pc = "ac_readlast", !.off = Len(data[proc[p].fd]) - 1])
          ELSE Upd(p, [proc[p] EXCEPT !.pc = "ac_write"])
    /\ UNCHANGED <<fsvars, now, build, env, runs, succ>>

\* the separator is needed: the last character is not a newline
NeedsNewlineBug(c) == c = NL

NeedsNewline(c) == c # NL

\* child: read(fd, &last_char, 1) == 1; if (last_char != '\n') ...
AC_ReadLast(p) ==
    /\ proc[p].pc = "ac_readlast"
    /\ LET s == data[proc[p].fd]
           o == proc[p].off IN
        IF o < Len(s)
          THEN Upd(p, [proc[p] EXCEPT !.lastc = s[o + 1], !.off = o + 1,
                    !.pc = IF NeedsNewline(s[o + 1]) THEN "ac_nl" ELSE "ac_write"])
          ELSE Upd(p, [proc[p] EXCEPT !.pc = "ac_write"])
    /\ UNCHANGED <<fsvars, now, build, env, runs, succ>>

\* child: write(fd, &newline, 1); lseek(fd, 0, SEEK_END)
AC_WriteNewline(p) ==
    /\ proc[p].pc = "ac_nl"
    /\ data' = [data EXCEPT ![proc[p].fd] = WriteAppend(@, <<NL>>)]
    /\ Upd(p, [proc[p] EXCEPT !.pc = "ac_write"])
    /\ UNCHANGED <<fs, kind, lockEx, now, build, env, runs, succ>>

\* child: bytes_written = write(fd, content, content_len)
AC_WriteContent(p) ==
    /\ proc[p].pc = "ac_write"
    /\ data' = [data EXCEPT ![proc[p].fd] = WriteAppend(@, proc[p].arg)]
    /\ Upd(p, [proc[p] EXCEPT !.pc = "ac_unlock", !.written = Len(proc[p].arg)])
    /\ UNCHANGED <<fs, kind, lockEx, now, build, env, runs, succ>>

\* child: flock(fd, LOCK_UN)
AC_Unlock(p) ==
    /\ proc[p].pc = "ac_unlock"
    /\ lockEx' = [lockEx EXCEPT ![proc[p].fd] = 0]
    /\ Upd(p, [proc[p] EXCEPT !.pc = "ac_close"])
    /\ UNCHANGED <<fs, kind, data, now, build, env, runs, succ>>

\* child: close(fd); bytes_written == content_len; log_operation(log_msg)
AC_Close(p) ==
    /\ proc[p].pc = "ac_close"
    /\ kind' = KindAfterClose(p, proc[p].fd)
    /\ data' = DataAfterClose(p, proc[p].fd)
    /\ Upd(p, CallLog([proc[p] EXCEPT !.fd = 0, !.off = 0],
                      AppendLogMsgChild(proc[p].path), "ac_report"))
    /\ UNCHANGED <<fs, lockEx, now, build, env, runs, succ>>

\* child: write(STDOUT_FILENO, success_msg, len); _exit(EXIT_SUCCESS)
AC_Report(p) ==
    /\ proc[p].pc = "ac_report"
    /\ Upd(p, [proc[p] EXCEPT !.pc = "ac_wait", !.status = "exit0",
            !.out = Append(@, Fmt1("Content appended to file \"", proc[p].path,
                                   "\" successfully.\n"))])
    /\ UNCHANGED <<fsvars, now, build, env, runs, succ>>

\* parent: waitpid(pid, &status, 0); return WEXITSTATUS(status) == EXIT_SUCCESS ? 0 : -1
\* when WIFEXITED(status), else the message of an abnormal termination and -1
AC_Wait(p) ==
    /\ proc[p].pc = "ac_wait"
    /\ Upd(p, [proc[p] EXCEPT !.pc = "done",
            !.result = IF proc[p].status = "exit0" THEN "ok" ELSE "fail",
            !.err = IF proc[p].status = "killed"
                        THEN "Error: Child process terminated abnormally\n" ELSE @])
    /\ UNCHANGED <<fsvars, now, build, env, runs, succ>>

append_to_file_child(p) ==
    \/ AC_Check(p) \/ AC_Open(p) \/ AC_Lock(p) \/ AC_Stat(p) \/ AC_Seek(p)
    \/ AC_ReadLast(p) \/ AC_WriteNewline(p) \/ AC_WriteContent(p)
    \/ AC_Unlock(p) \/ AC_Close(p) \/ AC_Report(p) \/ AC_Wait(p)

----------------------------------------------------------------------------
(* fileops.c: delete_file(filename) *)

DeleteFileLogMsg(filename) == Fmt1("File \"", filename, "\" deleted successfully.")

\* if (!file_exists(filename)) ... return -1; fork()
DF_Check(p) ==
    /\ proc[p].pc = "df_check"
    /\ IF file_exists(proc[p].path)
          THEN Upd(p, [proc[p] EXCEPT !.pc = "df_unlink"])
          ELSE Fail(p, "Error: File \"%s\" not found.\n")
    /\ UNCHANGED <<fsvars, now, build, env, runs, succ>>

\* unlink(path) succeeds: the name exists and is not a directory
UnlinkOk(path) == StatOk(path) /\ kind[fs[path]] # "dir"

\* child: unlink(filename); _exit(EXIT_SUCCESS), or _exit(EXIT_FAILURE) on error
DF_Unlink(p) ==
    /\ proc[p].pc = "df_unlink"
    /\ IF UnlinkOk(proc[p].path)
          THEN LET i == fs[proc[p].path]
                   gone == i # 0 /\ i \notin OpenInodes IN
               /\ fs' = [fs EXCEPT ![proc[p].path] = 0]
               /\ kind' = IF gone THEN [kind EXCEPT ![i] = "free"] ELSE kind
               /\ data' = IF gone THEN [data EXCEPT ![i] = <<>>] ELSE data
               /\ Upd(p, [proc[p] EXCEPT !.pc = "df_wait", !.status = "exit0"])
          ELSE /\ ChildFail(p, "Error: Could not delete file \"%s\": %s\n", "df_wait")
               /\ UNCHANGED <<fs, kind, data>>
    /\ UNCHANGED <<lockEx, now, build, env, runs, succ>>

\* parent: waitpid; on WEXITSTATUS == EXIT_SUCCESS log_operation(log_msg), else return -1
DF_WaitBug(p) ==
    /\ proc[p].pc = "df_wait"
    /\ Upd(p, CallLog(proc[p], DeleteFileLogMsg(proc[p].path), "df_report"))
    /\ UNCHANGED <<fsvars, now, build, env, runs, succ>>

DF_Wait(p) ==
    /\ proc[p].pc = "df_wait"
    /\ IF proc[p].status = "exit0"
          THEN Upd(p, CallLog(proc[p], DeleteFileLogMsg(proc[p].path), "df_report"))
          ELSE Upd(p, [proc[p] EXCEPT !.pc = "done", !.result = "fail"])
    /\ UNCHANGED <<fsvars, now, build, env, runs, succ>>

DF_Report(p) ==
    /\ proc[p].pc = "df_report"
    /\ Upd(p, [proc[p] EXCEPT !.pc = "done", !.result = "ok",
            !.out = Append(@, Fmt1("File \"", proc[p].path, "\" deleted successfully.\n"))])
    /\ UNCHANGED <<fsvars, now, build, env, runs, succ>>

delete_file(p) ==
    \/ DF_Check(p) \/ DF_Unlink(p) \/ DF_Wait(p) \/ DF_Report(p)

----------------------------------------------------------------------------
(* dirops.c (part_003): create_directory(dirname) *)

CreateDirLogMsg(dirname) == Fmt1("Directory \"", dirname, "\" created successfully.")

CD_Check(p) ==
    /\ proc[p].pc = "cd_check"
    /\ IF directory_exists(proc[p].path)
          THEN Fail(p, "Error: Directory \"%s\" already exists.\n")
          ELSE Upd(p, [proc[p] EXCEPT !.pc = "cd_mkdir"])
    /\ UNCHANGED <<fsvars, now, build, env, runs, succ>>

\* mkdir(dirname, 0755), then log_operation(log_msg)
CD_Mkdir(p) ==
    /\ proc[p].pc = "cd_mkdir"
    /\ IF Resolves(proc[p].path) /\ fs[proc[p].path] = 0
          THEN /\ fs' = [fs EXCEPT ![proc[p].path] = FreshInode]
               /\ kind' = [kind EXCEPT ![FreshInode] = "dir"]
               /\ Upd(p, CallLog(proc[p], CreateDirLogMsg(proc[p].path), "cd_report"))
          ELSE /\ Fail(p, "Error: Could not create directory \"%s\": %s\n")
               /\ UNCHANGED <<fs, kind>>
    /\ UNCHANGED <<data, lockEx, now, build, env, runs, succ>>

CD_Report(p) ==
    /\ proc[p].pc = "cd_report"
    /\ Upd(p, [proc[p] EXCEPT !.pc = "done", !.result = "ok",
            !.out = Append(@, Fmt1("Directory \"", proc[p].path, "\" created successfully.\n"))])
    /\ UNCHANGED <<fsvars, now, build, env, runs, succ>>

create_directory(p) == CD_Check(p) \/ CD_Mkdir(p) \/ CD_Report(p)

----------------------------------------------------------------------------
(* dirops.c (part_003): list_directory(dirname) *)

ListDirLogMsg(dirname) == Fmt1("Listed contents of directory \"", dirname, "\".")

\* if (!directory_exists(dirname)) ... return -1; fork()
LD_Check(p) ==
    /\ proc[p].pc = "ld_check"
    /\ IF directory_exists(proc[p].path)
          THEN Upd(p, [proc[p] EXCEPT !.pc = "ld_opendir"])
          ELSE Fail(p, "Error: Directory \"%s\" not found.\n")
    /\ UNCHANGED <<fsvars, now, build, env, runs, succ>>

\* child: opendir(dirname), then the header
LD_Opendir(p) ==
    /\ proc[p].pc = "ld_opendir"
    /\ IF directory_exists(proc[p].path)
          THEN Upd(p, [proc[p] EXCEPT !.pc = "ld_scan", !.fd = fs[proc[p].path],
                    !.out = Append(@, Fmt1("Contents of directory \"", proc[p].path, "\":\n"))])
          ELSE ChildFail(p, "Error: Could not open directory \"%s\": %s\n", "ld_wait")
    /\ UNCHANGED <<fsvars, now, build, env, runs, succ>>

\* the lines of the readdir loop, in the directory's enumeration order:
\* "  [DIR] name" for a directory, "  name" for anything else
ListLines(i) ==
    {(IF kind[fs[q]] = "dir" THEN <<"  [DIR] ">> ELSE <<"  ">>) \o Name(q) \o <<NL>> :
        q \in Entries(i)}

\* child: the readdir loop; closedir; the marker when count == 0; _exit(EXIT_SUCCESS)
LD_Scan(p) ==
    /\ proc[p].pc = "ld_scan"
    /\ kind' = KindAfterClose(p, proc[p].fd)
    /\ Upd(p, [proc[p] EXCEPT !.pc = "ld_wait", !.fd = 0, !.status = "exit0",
            !.listed = Entries(proc[p].fd),
            !.out = Append(@, IF ListLines(proc[p].fd) = {}
                                 THEN <<"  (empty directory)\n">>
                                 ELSE ListLines(proc[p].fd))])
    /\ UNCHANGED <<fs, data, lockEx, now, build, env, runs, succ>>

\* parent: waitpid; on success log_operation(log_msg); return 0
LD_Wait(p) ==
    /\ proc[p].pc = "ld_wait"
    /\ IF proc[p].status = "exit0"
          THEN Upd(p, CallLog(proc[p], ListDirLogMsg(proc[p].path), "ld_return"))
          ELSE Upd(p, [proc[p] EXCEPT !.pc = "done", !.result = "fail"])
    /\ UNCHANGED <<fsvars, now, build, env, runs, succ>>

LD_Return(p) ==
    /\ proc[p].pc = "ld_return"
    /\ Upd(p, [proc[p] EXCEPT !.pc = "done", !.result = "ok"])
    /\ UNCHANGED <<fsvars, now, build, env, runs, succ>>

list_directory(p) ==
    \/ LD_Check(p) \/ LD_Opendir(p) \/ LD_Scan(p) \/ LD_Wait(p) \/ LD_Return(p)

----------------------------------------------------------------------------
(* dirops.c (part_003): the readdir loop of list_directory's child, one    *)
(* entry at a time, on a directory stream of any content                   *)

\* names of the entries a directory may hold besides . and ..
DirNames == {"a", "s"}

\* what readdir returns and what stat(path, &st) then says of it: a
\* directory, anything else, or -1 (a symbolic link to nothing, a directory
\* without search permission)
Dirents == [name : {".", ".."} \cup DirNames, st : {"dir", "file", "fail"}]

\* the directory streams: . and .. and some of the names, each once, in
\* any order
Streams ==
    {s \in UNION {[1..n -> Dirents] : n \in 2..(2 + Cardinality(DirNames))} :
        /\ \A j, k \in 1..Len(s) : s[j].name = s[k].name => j = k
        /\ \A d \in {".", ".."} : \E k \in 1..Len(s) : s[k].name = d /\ s[k].st = "dir"}

\* the child after opendir and the header
ListerIdle == [pc |-> "idle", stream |-> <<>>, pos |-> 0, count |-> 0, out |-> <<>>]

\* "  [DIR] %s\n" when S_ISDIR(st.st_mode), "  %s\n" otherwise
EntryLine(e) ==
    IF e.st = "dir" THEN <<"  [DIR] ", e.name, "\n">> ELSE <<"  ", e.name, "\n">>

EmptyMarker == <<"  (empty directory)\n">>

\* one turn of while ((entry = readdir(dir)) != NULL): skip . and .., skip
\* the entry whose stat fails, else write its line and count it
LD_Readdir ==
    /\ lister.pc = "readdir"
    /\ IF lister.pos = Len(lister.stream)
          THEN lister' = [lister EXCEPT !.pc = "closedir"]
          ELSE LET e == lister.stream[lister.pos + 1] IN
                IF e.name \in {".", ".."} \/ e.st = "fail"
                  THEN lister' = [lister EXCEPT !.pos = @ + 1]
                  ELSE lister' = [lister EXCEPT !.pos = @ + 1, !.count = @ + 1,
                                    !.out = Append(@, EntryLine(e))]
    /\ UNCHANGED <<fsvars, now, build, scen, runs, succ, proc, parser, mem, strfmt>>

\* closedir(dir); if (count == 0) the marker; _exit(EXIT_SUCCESS)
LD_Closedir ==
    /\ lister.pc = "closedir"
    /\ lister' = [lister EXCEPT !.pc = "exited",
                    !.out = IF lister.count = 0 THEN Append(@, EmptyMarker) ELSE @]
    /\ UNCHANGED <<fsvars, now, build, scen, runs, succ, proc, parser, mem, strfmt>>

----------------------------------------------------------------------------
(* utils.c (part_000): string_format(buffer, size, format, ...), one       *)
(* character a token; buffer holds the characters written so far, so       *)
(* buffer_pos is its length                                                *)

\* the least int, -2^31
INT_MIN == -(2^30) - 2^30

\* string_format before it is called
FmtIdle ==
    [pc |-> "idle", size |-> 0, format |-> <<>>, args |-> <<>>, i |-> 0, argi |-> 0,
     buffer |-> <<>>, terminated |-> FALSE, ret |-> 0]

\* while (str[j] != '\0' && buffer_pos < size - 1) buffer[buffer_pos++] = str[j++]
RECURSIVE CopyBug(_, _, _)
CopyBug(buffer, str, size) ==
    IF str = <<>> \/ ~(Len(buffer) < size)
        THEN buffer
        ELSE CopyBug(Append(buffer, Head(str)), Tail(str), size)

RECURSIVE Copy(_, _, _)
Copy(buffer, str, size) ==
    IF str = <<>> \/ ~(Len(buffer) < size - 1)
        THEN buffer
        ELSE Copy(Append(buffer, Head(str)), Tail(str), size)

DigitChar(n) == <<"0", "1", "2", "3", "4", "5", "6", "7", "8", "9">>[n + 1]

\* temp[temp_pos++] = '0' + (value % 10); value /= 10, while value > 0 and
\* temp_pos < 20; then read from the last digit stored to the first
RECURSIVE Digits(_, _)
Digits(value, temp_pos) ==
    IF value > 0 /\ temp_pos < 20
        THEN Digits(value \div 10, temp_pos + 1) \o <<DigitChar(value % 10)>>
        ELSE <<>>

\* case 'd', from the value on
FormatValue(buffer, value, size) ==
    IF value = 0 THEN Append(buffer, "0") ELSE Copy(buffer, Digits(value, 0), size)

\* the digits of 2^31, the magnitude of INT_MIN
MagnitudeOfMin == <<"2", "1", "4", "7", "4", "8", "3", "6", "4", "8">>

\* case 'd': the buffers that may result.  value = -value overflows for
\* INT_MIN, undefined behaviour, after which value is INT_MIN still (no
\* digit follows the sign) or the digits of its magnitude are written
FormatInt(buffer, value, size) ==
    IF value < 0
        THEN LET signed == Append(buffer, "-") IN
             IF Len(signed) >= size - 1
                 THEN {signed}
             ELSE IF value = INT_MIN
                 THEN {FormatValue(signed, INT_MIN, size), Copy(signed, MagnitudeOfMin, size)}
             ELSE {FormatValue(signed, -value, size)}
        ELSE {FormatValue(buffer, value, size)}

\* if (!buffer || !format || size == 0) return -1
F_Enter ==
    /\ strfmt.pc = "entry"
    /\ strfmt' = IF strfmt.size = 0
                    THEN [strfmt EXCEPT !.pc = "returned", !.ret = -1]
                    ELSE [strfmt EXCEPT !.pc = "loop"]
    /\ UNCHANGED <<fsvars, now, build, scen, runs, succ, proc, parser, mem, lister>>

\* one turn of: for (i = 0; format[i] != '\0' && buffer_pos < size - 1; i++)
F_Step ==
    /\ strfmt.pc = "loop"
    /\ LET f == strfmt.format
           i == strfmt.i
           size == strfmt.size
           buffer == strfmt.buffer
       IN  IF i >= Len(f) \/ ~(Len(buffer) < size - 1)
              THEN strfmt' = [strfmt EXCEPT !.pc = "terminate"]
           ELSE IF f[i + 1] = "%" /\ i + 1 < Len(f)
              THEN LET arg == strfmt.args[strfmt.argi + 1] IN
                   CASE f[i + 2] = "s" ->
                          strfmt' = [strfmt EXCEPT !.i = i + 2, !.argi = @ + 1,
                              !.buffer = Copy(buffer,
                                              IF arg.s = "NULL"
                                                  THEN <<"(", "n", "u", "l", "l", ")">>
                                                  ELSE arg.s,
                                              size)]
                     [] f[i + 2] = "d" ->
                          \E b \in FormatInt(buffer, arg.d, size) :
                              strfmt' = [strfmt EXCEPT !.i = i + 2, !.argi = @ + 1, !.buffer = b]
                     [] f[i + 2] = "%" ->
                          strfmt' = [strfmt EXCEPT !.i = i + 2, !.buffer = Append(buffer, "%")]
                     [] OTHER ->
                          strfmt' = [strfmt EXCEPT !.i = i + 1, !.buffer = Append(buffer, f[i + 1])]
           ELSE strfmt' = [strfmt EXCEPT !.i = i + 1, !.buffer = Append(buffer, f[i + 1])]
    /\ UNCHANGED <<fsvars, now, build, scen, runs, succ, proc, parser, mem, lister>>

\* buffer[buffer_pos] = '\0'; return buffer_pos
F_Return ==
    /\ strfmt.pc = "terminate"
    /\ strfmt' = [strfmt EXCEPT !.pc = "returned", !.terminated = TRUE,
                    !.ret = Len(strfmt.buffer)]
    /\ UNCHANGED <<fsvars, now, build, scen, runs, succ, proc, parser, mem, lister>>

string_format == F_Enter \/ F_Step \/ F_Return

----------------------------------------------------------------------------
(* dirops.c (part_003): list_files_by_extension(dirname, extension) *)

ListExtLogMsg(extension, dirname) ==
    Fmt2("Listed files with extension \"", extension, "\" in directory \"", dirname, "\".")

\* name_len > ext_len && strcmp(d_name + name_len - ext_len, extension) == 0
HasExtension(name, ext) ==
    /\ Len(name) > Len(ext)
    /\ SubSeq(name, Len(name) - Len(ext) + 1, Len(name)) = ext

LE_Check(p) ==
    /\ proc[p].pc = "le_check"
    /\ IF directory_exists(proc[p].path)
          THEN Upd(p, [proc[p] EXCEPT !.pc = "le_opendir"])
          ELSE Fail(p, "Error: Directory \"%s\" not found.\n")
    /\ UNCHANGED <<fsvars, now, build, env, runs, succ>>

LE_Opendir(p) ==
    /\ proc[p].pc = "le_opendir"
    /\ IF directory_exists(proc[p].path)
          THEN Upd(p, [proc[p] EXCEPT !.pc = "le_scan", !.fd = fs[proc[p].path],
                    !.out = Append(@, Fmt2("Files with extension \"", proc[p].arg,
                                           "\" in directory \"", proc[p].path, "\":\n"))])
          ELSE ChildFail(p, "Error: Could not open directory \"%s\": %s\n", "le_wait")
    /\ UNCHANGED <<fsvars, now, build, env, runs, succ>>

\* the lines of the readdir loop: regular files whose name has the extension
ExtLines(i, ext) ==
    {<<"  ">> \o Name(q) \o <<NL>> :
        q \in {e \in Entries(i) : HasExtension(Name(e), ext) /\ kind[fs[e]] = "file"}}

LE_Scan(p) ==
    /\ proc[p].pc = "le_scan"
    /\ kind' = KindAfterClose(p, proc[p].fd)
    /\ Upd(p, [proc[p] EXCEPT !.pc = "le_wait", !.fd = 0, !.status = "exit0",
            !.listed = {e \in Entries(proc[p].fd) :
                            HasExtension(Name(e), proc[p].arg) /\ kind[fs[e]] = "file"},
            !.out = Append(@, IF ExtLines(proc[p].fd, proc[p].arg) = {}
                                 THEN Fmt2("No files with extension \"", proc[p].arg,
                                           "\" found in \"", proc[p].path, "\".\n")
                                 ELSE ExtLines(proc[p].fd, proc[p].arg))])
    /\ UNCHANGED <<fs, data, lockEx, now, build, env, runs, succ>>

LE_Wait(p) ==
    /\ proc[p].pc = "le_wait"
    /\ IF proc[p].status = "exit0"
          THEN Upd(p, CallLog(proc[p], ListExtLogMsg(proc[p].arg, proc[p].path), "le_return"))
          ELSE Upd(p, [proc[p] EXCEPT !.pc = "done", !.result = "fail"])
    /\ UNCHANGED <<fsvars, now, build, env, runs, succ>>

LE_Return(p) ==
    /\ proc[p].pc = "le_return"
    /\ Upd(p, [proc[p] EXCEPT !.pc = "done", !.result = "ok"])
    /\ UNCHANGED <<fsvars, now, build, env, runs, succ>>

list_files_by_extension(p) ==
    \/ LE_Check(p) \/ LE_Opendir(p) \/ LE_Scan(p) \/ LE_Wait(p) \/ LE_Return(p)

----------------------------------------------------------------------------
(* dirops.c (part_003): delete_directory(dirname) *)

DeleteDirLogMsg(dirname) == Fmt1("Directory \"", dirname, "\" deleted successfully.")

DD_Check(p) ==
    /\ proc[p].pc = "dd_check"
    /\ IF directory_exists(proc[p].path)
          THEN Upd(p, [proc[p] EXCEPT !.pc = "dd_opendir"])
          ELSE Fail(p, "Error: Directory \"%s\" not found.\n")
    /\ UNCHANGED <<fsvars, now, build, env, runs, succ>>

\* child: opendir(dirname)
DD_Opendir(p) ==
    /\ proc[p].pc = "dd_opendir"
    /\ IF directory_exists(proc[p].path)
          THEN Upd(p, [proc[p] EXCEPT !.pc = "dd_scan", !.fd = fs[proc[p].path]])
          ELSE ChildFail(p, "Error: Could not open directory \"%s\": %s\n", "dd_wait")
    /\ UNCHANGED <<fsvars, now, build, env, runs, succ>>

\* is_empty after the readdir loop: no entry besides "." and ".."
IsEmptyScanBug(i) == TRUE

IsEmptyScan(i) == Entries(i) = {}

\* child: the readdir loop; closedir; if (!is_empty) ... _exit(EXIT_FAILURE)
DD_Scan(p) ==
    /\ proc[p].pc = "dd_scan"
    /\ kind' = KindAfterClose(p, proc[p].fd)
    /\ IF IsEmptyScan(proc[p].fd)
          THEN Upd(p, [proc[p] EXCEPT !.pc = "dd_rmdir", !.fd = 0, !.empty = TRUE])
          ELSE Upd(p, [proc[p] EXCEPT !.pc = "dd_wait", !.fd = 0, !.empty = FALSE,
                    !.status = "exit1", !.err = "Error: Directory \"%s\" is not empty.\n"])
    /\ UNCHANGED <<fs, data, lockEx, now, build, env, runs, succ>>

\* rmdir(path) succeeds: the kernel removes only an existing, empty directory
RmdirOk(path) == directory_exists(path) /\ Entries(fs[path]) = {}

\* the message after a failed rmdir, with strerror(errno) substituted
RmdirError(path) ==
    CASE ~StatOk(path) -> "Error: Could not delete directory \"%s\": No such file or directory\n"
      [] StatOk(path) /\ kind[fs[path]] # "dir" ->
            "Error: Could not delete directory \"%s\": Not a directory\n"
      [] OTHER -> "Error: Could not delete directory \"%s\": Directory not empty\n"

\* child: rmdir(dirname); _exit(EXIT_SUCCESS), or _exit(EXIT_FAILURE) on error
DD_Rmdir(p) ==
    /\ proc[p].pc = "dd_rmdir"
    /\ IF RmdirOk(proc[p].path)
          THEN LET i == fs[proc[p].path] IN
               /\ fs' = [fs EXCEPT ![proc[p].path] = 0]
               /\ kind' = IF i \notin OpenInodes THEN [kind EXCEPT ![i] = "free"] ELSE kind
               /\ Upd(p, [proc[p] EXCEPT !.pc = "dd_wait", !.status = "exit0"])
          ELSE /\ ChildFail(p, RmdirError(proc[p].path), "dd_wait")
               /\ UNCHANGED <<fs, kind>>
    /\ UNCHANGED <<data, lockEx, now, build, env, runs, succ>>

DD_Wait(p) ==
    /\ proc[p].pc = "dd_wait"
    /\ IF proc[p].status = "exit0"
          THEN Upd(p, CallLog(proc[p], DeleteDirLogMsg(proc[p].path), "dd_report"))
          ELSE Upd(p, [proc[p] EXCEPT !.pc = "done", !.result = "fail"])
    /\ UNCHANGED <<fsvars, now, build, env, runs, succ>>

DD_Report(p) ==
    /\ proc[p].pc = "dd_report"
    /\ Upd(p, [proc[p] EXCEPT !.pc = "done", !.result = "ok",
            !.out = Append(@, Fmt1("Directory \"", proc[p].path, "\" deleted successfully.\n"))])
    /\ UNCHANGED <<fsvars, now, build, env, runs, succ>>

delete_directory(p) ==
    \/ DD_Check(p) \/ DD_Opendir(p) \/ DD_Scan(p) \/ DD_Rmdir(p) \/ DD_Wait(p) \/ DD_Report(p)

----------------------------------------------------------------------------
(* Initial states: the working directory before the first invocation *)

----------------------------------------------------------------------------
(* parse_command: the tokenizer of an input line                           *)

\* a NULL slot of the argument array
NullArg == [live |-> FALSE, buf |-> <<>>]

\* malloc(MAX_ARG_SIZE): a buffer with nothing stored in it yet
NewArg == [live |-> TRUE, buf |-> <<>>]

\* parse_command before it is called; args and g_args are all NULL
\* (g_args[k] is TRUE when it holds the pointer that args[k] holds or held)
ParserIdle ==
    [pc |-> "idle", input |-> <<>>, i |-> 0, j |-> 0, arg_count |-> 0,
     in_quotes |-> FALSE, args |-> [k \in 0..(MAX_ARGS - 1) |-> NullArg],
     g_args |-> [k \in 0..(MAX_ARGS - 1) |-> FALSE], oob |-> {}, over |-> {},
     ret |-> 0]

\* main's memory before main has started: args and g_args hold the heap
\* block each slot points to (0 is NULL), heap holds the state of the
\* block strdup returns for each slot
MemIdle ==
    [pc |-> "idle", argc |-> 0, i |-> 0,
     args |-> [k \in 0..(MAX_ARGS - 1) |-> 0],
     g_args |-> [k \in 0..(MAX_ARGS - 1) |-> 0],
     heap |-> [b \in 1..MAX_ARGS |-> "unalloc"],
     how |-> "none"]

\* input[i], the terminating NUL when i is the length of the line
CharAt(input, i) == IF i < Len(input) THEN input[i + 1] ELSE "NUL"

\* free_args(args); args[0] = malloc(MAX_ARG_SIZE); sync_args(args)
P_Enter ==
    /\ parser.pc = "entry"
    /\ parser' = [parser EXCEPT !.pc = "loop", !.i = 0, !.j = 0, !.arg_count = 0,
                    !.in_quotes = FALSE,
                    !.args = [k \in 0..(MAX_ARGS - 1) |-> IF k = 0 THEN NewArg ELSE NullArg],
                    !.g_args = [k \in 0..(MAX_ARGS - 1) |-> k = 0]]
    /\ UNCHANGED <<fsvars, now, build, scen, runs, succ, proc, mem, lister, strfmt>>

\* the end of a token at an unquoted space:
\* the indices at or past the end of a malloc(MAX_ARG_SIZE) buffer that
\* have been written, with a write at index j added
Over(ps, j) == IF j >= MAX_ARG_SIZE THEN ps.over \cup {j} ELSE ps.over

\* args[arg_count][j] = '\0'; arg_count++; break at MAX_ARGS, else malloc
\* the next buffer, sync_args, j = 0
EndToken(ps) ==
    IF ps.arg_count + 1 >= MAX_ARGS
        THEN [ps EXCEPT !.arg_count = @ + 1, !.pc = "tail", !.over = Over(ps, ps.j)]
        ELSE [ps EXCEPT !.arg_count = @ + 1, !.j = 0, !.i = @ + 1,
                !.over = Over(ps, ps.j),
                !.args = [@ EXCEPT ![ps.arg_count + 1] = NewArg],
                !.g_args = [k \in 0..(MAX_ARGS - 1) |->
                              k = ps.arg_count + 1 \/ ps.args[k].live]]

\* one turn of: for (i = 0; input[i] != '\0' && input[i] != '\n'; i++).
\* Nothing compares j with MAX_ARG_SIZE: a write past the end of the buffer
\* is undefined behaviour, after which the loop goes on or the process is
\* killed
P_Char ==
    /\ parser.pc = "loop"
    /\ LET c == CharAt(parser.input, parser.i)
           next ==
            CASE c \in {"NUL", "\n"} -> [parser EXCEPT !.pc = "tail"]
              [] c = "\"" -> [parser EXCEPT !.in_quotes = ~@, !.i = @ + 1]
              [] c = " " /\ ~parser.in_quotes ->
                    IF parser.j > 0 THEN EndToken(parser) ELSE [parser EXCEPT !.i = @ + 1]
              [] OTHER ->
                    [parser EXCEPT !.args[parser.arg_count].buf = Append(@, c),
                                   !.j = @ + 1, !.i = @ + 1,
                                   !.over = Over(parser, parser.j)]
       IN \E outcome \in {next.pc} \cup (IF next.over # parser.over THEN {"crashed"} ELSE {}) :
            parser' = [next EXCEPT !.pc = outcome]
    /\ UNCHANGED <<fsvars, now, build, scen, runs, succ, proc, mem, lister, strfmt>>

\* after the loop: the last token is counted if it has characters, else the
\* buffer allocated for it is freed.  After the break at MAX_ARGS j still
\* holds the length of the fourth token, so args[MAX_ARGS] is read and
\* written through: one slot past the array, undefined behaviour, after
\* which the call either returns MAX_ARGS + 1 or the process is killed
P_Tail ==
    /\ parser.pc = "tail"
    /\ IF parser.j > 0
          THEN IF parser.arg_count < MAX_ARGS
                  THEN \E outcome \in {"returned"} \cup
                                (IF parser.j >= MAX_ARG_SIZE THEN {"crashed"} ELSE {}) :
                        parser' = [parser EXCEPT !.pc = outcome, !.arg_count = @ + 1,
                                    !.ret = parser.arg_count + 1,
                                    !.over = Over(parser, parser.j)]
                  ELSE \E outcome \in {"returned", "crashed"} :
                        parser' = [parser EXCEPT !.pc = outcome, !.arg_count = @ + 1,
                                    !.ret = parser.arg_count + 1,
                                    !.oob = @ \cup {parser.arg_count}]
          ELSE IF parser.arg_count > 0
                  THEN parser' = [parser EXCEPT !.pc = "returned", !.ret = parser.arg_count,
                                    !.args[parser.arg_count] = NullArg,
                                    !.g_args[parser.arg_count] = FALSE]
                  ELSE parser' = [parser EXCEPT !.pc = "returned", !.ret = 0]
    /\ UNCHANGED <<fsvars, now, build, scen, runs, succ, proc, mem, lister, strfmt>>

parse_command == P_Enter \/ P_Char \/ P_Tail

\* the characters of the input lines
Alphabet == {"a", " ", "\"", "\n"}

\* n one-letter tokens with single spaces between them
RECURSIVE Spaced(_)
Spaced(n) == IF n = 1 THEN <<"a">> ELSE Spaced(n - 1) \o <<" ", "a">>

\* the input lines: every line of up to MaxLine characters, the lines
\* of up to MaxTokens one-letter tokens, with and without a space at the
\* end, and lines whose token fills a buffer, or is longer by one or two
InputLines ==
    UNION {[1..n -> Alphabet] : n \in 0..MaxLine}
    \cup {pre \o [k \in 1..n |-> "a"] \o post :
            n \in (MAX_ARG_SIZE - 1)..(MAX_ARG_SIZE + 1),
            pre \in {<<>>, <<"a", " ">>}, post \in {<<>>, <<" ", "a">>}}
    \cup {Spaced(n) \o tail : n \in 1..MaxTokens, tail \in {<<>>, <<" ">>, <<"\n", "a">>}}
    \cup {<<"c", "r", "e", "a", "t", "e", "F", "i", "l", "e", " ",
            "\"", "m", "y", " ", "f", "i", "l", "e", ".", "t", "x", "t", "\"">>}


Rank(path) ==
    CASE path = LOG_FILE -> 1 [] path = "a.txt" -> 2 [] path = "d" -> 3 [] path = "d/f.txt" -> 4

\* a working directory: what each path is ("none", "file", "dir"); a file
\* lies in a directory that exists
Layouts ==
    {l \in [Paths -> {"none", "file", "dir"}] :
        \A q \in Paths : l[q] # "none" /\ Parent(q) # "." => l[Parent(q)] = "dir"}

InitFs(layout, content) ==
    /\ fs = [q \in Paths |-> IF layout[q] = "none" THEN 0 ELSE Rank(q)]
    /\ kind = [i \in Inodes |->
                IF \E q \in Paths : Rank(q) = i /\ layout[q] # "none"
                    THEN layout[CHOOSE q \in Paths : Rank(q) = i] ELSE "free"]
    /\ data = [i \in Inodes |->
                IF i = Rank("a.txt") /\ layout["a.txt"] = "file" THEN content ELSE <<>>]
    /\ lockEx = [i \in Inodes |-> 0]

InitProcs ==
    /\ parser = ParserIdle
    /\ mem = MemIdle
    /\ lister = ListerIdle
    /\ strfmt = FmtIdle
    /\ now = 0
    /\ runs = 0
    /\ succ = 0
    /\ proc = [p \in Procs |-> Idle]

Operations(p) ==
    \/ log_operation(p)
    \/ create_file(p) \/ read_file(p) \/ delete_file(p)
    \/ append_to_file_inproc(p) \/ append_to_file_child(p)
    \/ create_directory(p) \/ list_directory(p)
    \/ list_files_by_extension(p) \/ delete_directory(p)

\* a scenario: the command lines <<op, path, arg>> to run in turn, the
\* working directory they start in, and the first content of a.txt
Scenario(cmds, layout, content) == [cmds |-> cmds, layout |-> layout, content |-> content]

Dir(log, a, d, f) ==
    (LOG_FILE :> log) @@ ("a.txt" :> a) @@ ("d" :> d) @@ ("d/f.txt" :> f)

Repeat(cmd, n) == [k \in 1..n |-> cmd]

\* the next command line of the scenario
StartScript(p) ==
    /\ runs < Len(scen.cmds)
    /\ LET c == scen.cmds[runs + 1] IN Start(p, c[1], c[2], c[3])

InitScenario(scenarios) ==
    /\ \E sc \in scenarios : scen = sc /\ InitFs(sc.layout, sc.content)
    /\ build \in {"fileops.c", "part_001"}
    /\ InitProcs

----------------------------------------------------------------------------
(* Spec: concurrent invocations of any command on any path *)

SpecLayouts ==
    {l \in Layouts : l[LOG_FILE] # "dir" /\ l["a.txt"] # "dir"
                      /\ l["d"] # "file" /\ l["d/f.txt"] # "dir"}

Init ==
    /\ \E l \in SpecLayouts : InitFs(l, <<"x">>) /\ scen = Scenario(<<>>, l, <<"x">>)
    /\ build \in {"fileops.c", "part_001"}
    /\ InitProcs

Arguments(op) ==
    CASE op = "appendToFile" -> {<<"x">>}
      [] op = "listFilesByExtension" -> {<<".", "t", "x", "t">>}
      [] OTHER -> {<<>>}

StartAny(p) ==
    /\ runs < MaxRuns
    /\ \E op \in Ops, path \in Paths : \E arg \in Arguments(op) : Start(p, op, path, arg)

Next ==
    \E p \in Procs : StartAny(p) \/ InitLogging(p) \/ Operations(p) \/ Exit(p)

Spec == Init /\ [][Next]_vars

----------------------------------------------------------------------------
(* SpecSeq: one invocation after the other, from a script *)

InitContents == {<<>>, <<"x">>, <<"x", NL>>}

SeqScenarios ==
    \* createFile, then readFile
    {Scenario(<<(<<"createFile", q, <<>>>>), (<<"readFile", q, <<>>>>)>>, l, <<>>) :
        q \in {"a.txt", LOG_FILE, "d/f.txt"},
        l \in {Dir("none", "none", "none", "none"), Dir("file", "none", "dir", "none")}}
    \cup
    \* createFile, then appendToFile AppendCount times with the same content
    {Scenario(<<(<<"createFile", "a.txt", <<>>>>)>> \o Repeat(<<"appendToFile", "a.txt", c>>, AppendCount),
              Dir("none", "none", "none", "none"), <<>>) : c \in Contents}
    \cup
    \* one appendToFile on a file with some content
    {Scenario(<<(<<"appendToFile", q, c>>)>>, Dir("file", "file", "none", "none"), c0) :
        q \in {"a.txt", LOG_FILE}, c \in Contents, c0 \in InitContents}
    \cup
    \* createFile twice, deleteFile twice
    {Scenario(Repeat(<<op, "a.txt", <<>>>>, 2), l, <<"x">>) :
        op \in {"createFile", "deleteFile"},
        l \in {Dir("none", "none", "none", "none"), Dir("file", "file", "none", "none")}}
    \cup
    \* the directory deletion guard
    {Scenario(<<(<<"createDir", "d", <<>>>>), (<<"createFile", "d/f.txt", <<>>>>),
                (<<"deleteDir", "d", <<>>>>), (<<"deleteFile", "d/f.txt", <<>>>>),
                (<<"deleteDir", "d", <<>>>>)>>,
              Dir("none", "none", "none", "none"), <<>>)}

InitSeq == InitScenario(SeqScenarios)

NextSeq ==
    \/ StartScript(1) \/ InitLogging(1) \/ Exit(1)
    \/ log_operation(1)
    \/ create_file(1) \/ read_file(1) \/ delete_file(1)
    \/ append_to_file_inproc(1) \/ append_to_file_child(1)
    \/ create_directory(1) \/ delete_directory(1)
    \/ Tick

SpecSeq == InitSeq /\ [][NextSeq]_vars

----------------------------------------------------------------------------
(* SpecSame: the same command line invoked SameCount times, by processes   *)
(* that run at once or one after the other                                 *)

SameScenarios ==
    {Scenario(Repeat(<<"createFile", q, <<>>>>, SameCount),
              Dir("none", "none", "none", "none"), <<>>) : q \in {"a.txt", LOG_FILE}}
    \cup
    {Scenario(Repeat(<<"deleteFile", q, <<>>>>, SameCount),
              Dir("file", "file", "none", "none"), <<"x">>) : q \in {"a.txt", LOG_FILE}}
    \cup
    \* the appenders write different contents
    {Scenario([k \in 1..SameCount |->
                <<"appendToFile", "a.txt", IF k % 2 = 1 THEN <<"x">> ELSE <<"y">> >>],
              Dir("file", "file", "none", "none"), c0) : c0 \in {<<"x">>, <<"x", NL>>}}

InitSame == InitScenario(SameScenarios)

NextSame ==
    \E p \in Procs :
        \/ StartScript(p) \/ InitLogging(p) \/ Exit(p)
        \/ log_operation(p)
        \/ create_file(p) \/ delete_file(p)
        \/ append_to_file_inproc(p) \/ append_to_file_child(p)

SpecSame == InitSame /\ [][NextSame]_vars

----------------------------------------------------------------------------
(* SpecLog: concurrent invocations of any command on any path but the log  *)

StartOther(p) ==
    /\ runs < MaxRuns
    /\ \E op \in Ops, path \in Paths \ {LOG_FILE} : \E arg \in Arguments(op) :
        Start(p, op, path, arg)

NextLog ==
    \E p \in Procs : StartOther(p) \/ InitLogging(p) \/ Operations(p) \/ Exit(p)

SpecLog == Init /\ [][NextLog]_vars

----------------------------------------------------------------------------
(* SpecCmd: one invocation after the other, each from its argument vector  *)

\* the arguments after the command name, cut to n
Extras == {<<q, t, "x", "x">> : q \in {"a.txt", "d"}, t \in {"x", ".txt"}}

\* argument vectors: no argument at all, and every command name, a token
\* that is no command and a long one, with zero to MAX_ARGS arguments
ArgVectors ==
    {<<>>} \cup
    {<<cmd>> \o SubSeq(e, 1, n) :
        cmd \in Commands \cup {UnknownToken, LongToken}, e \in Extras, n \in 0..MAX_ARGS}

\* the invocation under study, alone or after a createFile that leaves a
\* log entry, from an empty working directory or a populated one
CmdScenarios ==
    {Scenario(pre \o <<argv>>, l, <<"x">>) :
        pre \in {<<>>, <<(<<"createFile", "a.txt">>)>>},
        argv \in ArgVectors,
        l \in {Dir("none", "none", "none", "none"), Dir("file", "file", "dir", "none")}}

InitCmd == InitScenario(CmdScenarios)

StartArgvScript(p) ==
    /\ runs < Len(scen.cmds)
    /\ StartArgv(p, scen.cmds[runs + 1])

NextCmd ==
    \/ StartArgvScript(1) \/ InitLogging(1) \/ M_Args(1) \/ Execute(1) \/ Exit(1)
    \/ Operations(1) \/ show_logs(1)

SpecCmd == InitCmd /\ [][NextCmd]_vars

----------------------------------------------------------------------------
(* SpecSig: the argument strings of main, with SIGINT or SIGTERM at any    *)
(* point                                                                   *)

memfree == <<fsvars, now, build, scen, runs, succ, proc, parser, lister, strfmt>>

\* free(ptr) on the heap: a live block is freed, a freed block is freed again
Free(heap, b) ==
    [heap EXCEPT ![b] = IF @ = "live" THEN "freed" ELSE "double"]

\* the loop of exit_handler and cleanup_handler: every non-NULL g_args[i] is
\* freed and set to NULL
FreeGlobals(heap, g_args, k) ==
    IF g_args[k] = 0 THEN heap ELSE Free(heap, g_args[k])

HeapAfterHandler ==
    LET h0 == FreeGlobals(mem.heap, mem.g_args, 0)
        h1 == FreeGlobals(h0, mem.g_args, 1)
        h2 == FreeGlobals(h1, mem.g_args, 2)
    IN  FreeGlobals(h2, mem.g_args, 3)

\* args[i] = strdup(argv[i + 1]) for i < arg_count; a NULL result ends main
\* through free_args and sync_args
M_Strdup ==
    /\ mem.pc = "copy"
    /\ IF mem.i < mem.argc
          THEN \/ mem' = [mem EXCEPT !.heap[mem.i + 1] = "live",
                                      !.args[mem.i] = mem.i + 1, !.i = @ + 1]
               \/ mem' = [mem EXCEPT !.pc = "free", !.i = 0, !.how = "nomem"]
          ELSE mem' = [mem EXCEPT !.pc = "sync", !.i = 0]
    /\ UNCHANGED memfree

\* sync_args, one slot at a time: g_args[i] = args[i]
M_Sync ==
    /\ mem.pc \in {"sync", "resync"}
    /\ IF mem.i < MAX_ARGS
          THEN mem' = [mem EXCEPT !.g_args[mem.i] = mem.args[mem.i], !.i = @ + 1]
          ELSE mem' = [mem EXCEPT !.pc = IF @ = "sync" THEN "execute" ELSE "return", !.i = 0]
    /\ UNCHANGED memfree

\* execute_command runs and returns
M_Execute ==
    /\ mem.pc = "execute"
    /\ mem' = [mem EXCEPT !.pc = "free", !.i = 0]
    /\ UNCHANGED memfree

\* free_args, one slot at a time: free(args[i]); args[i] = NULL
M_Free ==
    /\ mem.pc = "free"
    /\ IF mem.i < MAX_ARGS
          THEN mem' = [mem EXCEPT !.heap = IF mem.args[mem.i] = 0 THEN @
                                           ELSE Free(@, mem.args[mem.i]),
                                  !.args[mem.i] = 0, !.i = @ + 1]
          ELSE mem' = [mem EXCEPT !.pc = "resync", !.i = 0]
    /\ UNCHANGED memfree

\* main returns: exit runs exit_handler, registered with atexit
M_Return ==
    /\ mem.pc = "return"
    /\ mem' = [mem EXCEPT !.pc = "exited", !.heap = HeapAfterHandler,
                          !.g_args = [k \in 0..(MAX_ARGS - 1) |-> 0],
                          !.how = IF @ = "none" THEN "return" ELSE @]
    /\ UNCHANGED memfree

\* SIGINT or SIGTERM is delivered: cleanup_handler frees what g_args points
\* to and calls _exit, which runs no atexit handler; freeing a block twice
\* is undefined, the allocator may abort the process instead
cleanup_handler ==
    /\ mem.pc \notin {"idle", "exited"}
    /\ \E outcome \in {"signal", "abort"} :
        /\ outcome = "abort" => \E b \in 1..MAX_ARGS : HeapAfterHandler[b] = "double"
        /\ mem' = [mem EXCEPT !.pc = "exited", !.heap = HeapAfterHandler,
                              !.g_args = [k \in 0..(MAX_ARGS - 1) |-> 0],
                              !.how = outcome]
    /\ UNCHANGED memfree

InitSig ==
    /\ InitFs(Dir("none", "none", "none", "none"), <<>>)
    /\ scen = Scenario(<<>>, Dir("none", "none", "none", "none"), <<>>)
    /\ build = "fileops.c"
    /\ now = 0 /\ runs = 0 /\ succ = 0
    /\ proc = [p \in Procs |-> Idle]
    /\ parser = ParserIdle
    /\ lister = ListerIdle
    /\ strfmt = FmtIdle
    /\ \E n \in 1..MAX_ARGS : mem = [MemIdle EXCEPT !.pc = "copy", !.argc = n]

NextSig == M_Strdup \/ M_Sync \/ M_Execute \/ M_Free \/ M_Return \/ cleanup_handler

SpecSig == InitSig /\ [][NextSig]_vars

----------------------------------------------------------------------------
(* SpecShow: showLogs concurrent with operations that log                  *)

InitShow ==
    /\ \E l \in {Dir("none", "none", "none", "none"), Dir("file", "file", "none", "none")} :
        InitFs(l, <<"x">>) /\ scen = Scenario(<<>>, l, <<"x">>)
    /\ build = "fileops.c"
    /\ InitProcs

StartShow(p) ==
    /\ runs < ShowRuns
    /\ \/ StartArgv(p, <<"showLogs">>)
       \/ \E c \in {<<"createFile", "a.txt">>, <<"deleteFile", "a.txt">>,
                    <<"createDir", "d">>} : Start(p, c[1], c[2], <<>>)

NextShow ==
    \E p \in Procs :
        \/ StartShow(p) \/ InitLogging(p) \/ M_Args(p) \/ Execute(p) \/ Exit(p)
        \/ show_logs(p) \/ log_operation(p)
        \/ create_file(p) \/ delete_file(p) \/ create_directory(p)

SpecShow == InitShow /\ [][NextShow]_vars

----------------------------------------------------------------------------
(* SpecInit: two invocations in turn, from a directory without a log, with *)
(* a log, or with a directory in the log's place                           *)

InitCommands ==
    {<<"createFile", "a.txt", <<>>>>, <<"readFile", "a.txt", <<>>>>,
     <<"deleteFile", "a.txt", <<>>>>, <<"createDir", "d", <<>>>>,
     <<"appendToFile", "a.txt", <<"x">>>>}

InitScenarios ==
    {Scenario(<<c1, c2>>, l, <<"x">>) :
        c1 \in InitCommands, c2 \in InitCommands,
        l \in {Dir("none", "none", "none", "none"), Dir("file", "file", "none", "none"),
               Dir("dir", "file", "none", "none")}}

InitInit == InitScenario(InitScenarios)

NextInit ==
    \/ StartScript(1) \/ InitLogging(1) \/ Exit(1)
    \/ log_operation(1)
    \/ create_file(1) \/ read_file(1) \/ delete_file(1)
    \/ append_to_file_inproc(1) \/ append_to_file_child(1)
    \/ create_directory(1)

SpecInit == InitInit /\ [][NextInit]_vars

----------------------------------------------------------------------------
(* SpecList: one listing of a directory                                    *)

\* suffixes: of some names, a whole name, the empty one, one in upper case
ListExtensions ==
    Extensions \cup {<<"f", ".", "t", "x", "t">>, <<>>, <<".", "T", "X", "T">>, <<"x", "t">>}

ListScenarios ==
    {Scenario(<<c>>, l, <<"x">>) :
        c \in {<<"listFilesByExtension", q, e>> : q \in {"d", "a.txt"}, e \in ListExtensions}
              \cup {<<"listDir", q, <<>>>> : q \in {"d", "a.txt"}},
        l \in {l \in Layouts : l[LOG_FILE] # "dir" /\ l["a.txt"] # "dir"}}

InitList == InitScenario(ListScenarios)

NextList ==
    \/ StartScript(1) \/ InitLogging(1) \/ Exit(1)
    \/ log_operation(1)
    \/ list_directory(1) \/ list_files_by_extension(1)

SpecList == InitList /\ [][NextList]_vars

----------------------------------------------------------------------------
(* SpecKill: one operation whose child process may be killed by a signal   *)

\* the statements a child process runs, and the waitpid of its parent
ChildPcs ==
    {"ac_open", "ac_lock", "ac_stat", "ac_seek", "ac_readlast", "ac_nl", "ac_write",
     "ac_unlock", "ac_close", "ac_report",
     "df_unlink", "ld_opendir", "ld_scan", "le_opendir", "le_scan",
     "dd_opendir", "dd_scan", "dd_rmdir"}

WaitPc(op) ==
    CASE op = "appendToFile" -> "ac_wait"
      [] op = "deleteFile" -> "df_wait"
      [] op = "listDir" -> "ld_wait"
      [] op = "listFilesByExtension" -> "le_wait"
      [] op = "deleteDir" -> "dd_wait"

\* the child is killed by a signal: the kernel closes its descriptors and
\* drops its locks; the parent's waitpid returns a status that is not
\* WIFEXITED
Kill(p) ==
    /\ proc[p].pc \in ChildPcs
    /\ Upd(p, [proc[p] EXCEPT !.pc = WaitPc(proc[p].op), !.status = "killed", !.fd = 0])
    /\ lockEx' = [i \in Inodes |-> IF lockEx[i] = p THEN 0 ELSE lockEx[i]]
    /\ kind' = IF proc[p].fd = 0 THEN kind ELSE KindAfterClose(p, proc[p].fd)
    /\ data' = IF proc[p].fd = 0 THEN data ELSE DataAfterClose(p, proc[p].fd)
    /\ UNCHANGED <<fs, now, build, env, runs, succ>>

KillScenarios ==
    {Scenario(<<c>>, Dir("file", "file", "dir", "none"), <<"x">>) :
        c \in {<<"appendToFile", "a.txt", <<"x">>>>, <<"deleteFile", "a.txt", <<>>>>,
               <<"deleteFile", "d", <<>>>>,
               <<"listDir", "d", <<>>>>, <<"listFilesByExtension", "d", <<"t">>>>,
               <<"deleteDir", "d", <<>>>>}}
    \cup
    {Scenario(<<(<<"deleteDir", "d", <<>>>>)>>, Dir("file", "file", "dir", "file"), <<"x">>)}

InitKill == InitScenario(KillScenarios)

NextKill ==
    \/ StartScript(1) \/ InitLogging(1) \/ Exit(1) \/ Kill(1)
    \/ log_operation(1)
    \/ delete_file(1)
    \/ append_to_file_inproc(1) \/ append_to_file_child(1)
    \/ list_directory(1) \/ list_files_by_extension(1) \/ delete_directory(1)

SpecKill == InitKill /\ [][NextKill]_vars

----------------------------------------------------------------------------
(* SpecDump: showLogs among commands that write or remove the log file     *)

StartDump(p) ==
    /\ runs < MaxRuns
    /\ \/ StartArgv(p, <<"showLogs">>)
       \/ \E c \in {<<"appendToFile", LOG_FILE, <<"x">>>>, <<"deleteFile", LOG_FILE, <<>>>>,
                    <<"createFile", "a.txt", <<>>>>} : Start(p, c[1], c[2], c[3])

InitDump ==
    /\ \E l \in {Dir("none", "none", "none", "none"), Dir("file", "none", "none", "none")} :
        InitFs(l, <<>>) /\ scen = Scenario(<<>>, l, <<>>)
    /\ build \in {"fileops.c", "part_001"}
    /\ InitProcs

NextDump ==
    \E p \in Procs :
        \/ StartDump(p) \/ InitLogging(p) \/ M_Args(p) \/ Execute(p) \/ Exit(p)
        \/ show_logs(p) \/ log_operation(p)
        \/ create_file(p) \/ delete_file(p)
        \/ append_to_file_inproc(p) \/ append_to_file_child(p)

SpecDump == InitDump /\ [][NextDump]_vars

----------------------------------------------------------------------------
(* SpecFault: log_operation, show_logs and append_to_file when a system    *)
(* call after the open fails                                               *)

\* the system call a statement makes
FaultOf(pc) ==
    CASE pc \in {"lo_lock", "sl_lock", "af_lock"} -> "flock"
      [] pc \in {"lo_write", "af_nl", "af_write"} -> "write"
      [] pc \in {"lo_unlock", "sl_unlock", "af_unlock"} -> "unlock"
      [] pc \in {"lo_close", "sl_close", "af_close"} -> "close"
      [] pc = "sl_fstat" -> "fstat"
      [] pc = "sl_read" -> "read"

\* the locks after p's descriptor is closed or unlocked
LocksWithout(p) == [i \in Inodes |-> IF lockEx[i] = p THEN 0 ELSE lockEx[i]]

\* log_operation: flock fails: close(fd); write fails: flock(LOCK_UN),
\* close(fd); unlock fails: close(fd); close fails; each returns -1
LO_FaultBug(p) ==
    /\ proc[p].pc \in {"lo_lock", "lo_write", "lo_unlock", "lo_close"}
    /\ Upd(p, [proc[p] EXCEPT !.pc = proc[p].ret, !.logrc = "fail",
                              !.fault = FaultOf(proc[p].pc)])
    /\ UNCHANGED <<fsvars, now, build, env, runs, succ>>

LO_Fault(p) ==
    /\ proc[p].pc \in {"lo_lock", "lo_write", "lo_unlock", "lo_close"}
    /\ Upd(p, [proc[p] EXCEPT !.pc = proc[p].ret, !.fd = 0, !.logrc = "fail",
                              !.fault = FaultOf(proc[p].pc)])
    /\ lockEx' = LocksWithout(p)
    /\ kind' = KindAfterClose(p, proc[p].fd)
    /\ data' = DataAfterClose(p, proc[p].fd)
    /\ UNCHANGED <<fs, now, build, env, runs, succ>>

\* show_logs: flock fails: close(fd); fstat, malloc or read fails:
\* flock(LOCK_UN), close(fd); unlock fails: close(fd); close fails; each
\* returns -1
SL_Fault(p) ==
    /\ proc[p].pc \in {"sl_lock", "sl_fstat", "sl_read", "sl_unlock", "sl_close"}
    /\ Upd(p, [proc[p] EXCEPT !.pc = "done", !.result = "fail", !.fd = 0, !.shlock = 0,
                              !.err = "Error: log file: %s\n",
                              !.fault = FaultOf(proc[p].pc)])
    /\ kind' = KindAfterClose(p, proc[p].fd)
    /\ data' = DataAfterClose(p, proc[p].fd)
    /\ UNCHANGED <<fs, lockEx, now, build, env, runs, succ>>

\* append_to_file of fileops.c: flock fails: close(fd); a write fails:
\* flock(LOCK_UN), close(fd); unlock fails: close(fd); close fails; each
\* returns -1
AF_Fault(p) ==
    /\ proc[p].pc \in {"af_lock", "af_nl", "af_write", "af_unlock", "af_close"}
    /\ Upd(p, [proc[p] EXCEPT !.pc = "done", !.result = "fail", !.fd = 0,
                              !.err = "Error: file \"%s\": %s\n",
                              !.fault = FaultOf(proc[p].pc)])
    /\ lockEx' = LocksWithout(p)
    /\ kind' = KindAfterClose(p, proc[p].fd)
    /\ data' = DataAfterClose(p, proc[p].fd)
    /\ UNCHANGED <<fs, now, build, env, runs, succ>>

FaultScenarios ==
    {Scenario(<<c1, c2>>, l, <<"x">>) :
        c1 \in {<<"createFile", "a.txt">>, <<"appendToFile", "a.txt", "x">>},
        c2 \in {<<"showLogs">>, <<"appendToFile", "a.txt", "x">>, <<"createDir", "d">>},
        l \in {Dir("none", "none", "none", "none"), Dir("file", "file", "none", "none")}}

InitFault == InitScenario(FaultScenarios)

NextFault ==
    \/ StartArgvScript(1) \/ InitLogging(1) \/ M_Args(1) \/ Execute(1) \/ Exit(1)
    \/ show_logs(1) \/ log_operation(1)
    \/ create_file(1) \/ create_directory(1)
    \/ append_to_file_inproc(1) \/ append_to_file_child(1)
    \/ LO_Fault(1) \/ SL_Fault(1) \/ AF_Fault(1)

SpecFault == InitFault /\ [][NextFault]_vars

----------------------------------------------------------------------------
(* SpecParse: parse_command on one input line                              *)

InitParse ==
    /\ InitFs(Dir("none", "none", "none", "none"), <<>>)
    /\ scen = Scenario(<<>>, Dir("none", "none", "none", "none"), <<>>)
    /\ build = "fileops.c"
    /\ now = 0 /\ runs = 0 /\ succ = 0
    /\ proc = [p \in Procs |-> Idle]
    /\ mem = MemIdle
    /\ lister = ListerIdle
    /\ strfmt = FmtIdle
    /\ \E line \in InputLines : parser = [ParserIdle EXCEPT !.pc = "entry", !.input = line]

NextParse == parse_command

SpecParse == InitParse /\ [][NextParse]_vars

----------------------------------------------------------------------------
(* SpecLive: invocations that take locks, at once, every process running   *)
(* on and every lock granted fairly                                        *)

InitLive ==
    /\ \E l \in {Dir("file", "file", "none", "none")} :
        InitFs(l, <<"x">>) /\ scen = Scenario(<<>>, l, <<"x">>)
    /\ build \in {"fileops.c", "part_001"}
    /\ InitProcs

StartLive(p) ==
    /\ runs < ShowRuns
    /\ \/ StartArgv(p, <<"showLogs">>)
       \/ \E q \in {"a.txt", LOG_FILE} : Start(p, "appendToFile", q, <<"x">>)

\* the steps of an invocation once started
StepLive(p) ==
    \/ InitLogging(p) \/ M_Args(p) \/ Execute(p) \/ Exit(p)
    \/ show_logs(p) \/ log_operation(p)
    \/ append_to_file_inproc(p) \/ append_to_file_child(p)

\* the blocking flock calls
LockStep(p) == AF_Lock(p) \/ LO_Lock(p) \/ SL_Lock(p)

NextLive == \E p \in Procs : StartLive(p) \/ StepLive(p)

SpecLive ==
    /\ InitLive /\ [][NextLive]_vars
    /\ \A p \in Procs : WF_vars(StepLive(p)) /\ SF_vars(LockStep(p))

----------------------------------------------------------------------------
(* SpecPair: the same appendToFile made once by each build, one after the  *)
(* other, on two files of the same first content                           *)

PairLayouts == {Dir("file", "file", "dir", "file"), Dir("file", "none", "dir", "none")}

InitPair ==
    /\ \E l \in PairLayouts, c0 \in InitContents, c \in Contents :
        /\ scen = Scenario(<<(<<"appendToFile", "a.txt", c>>),
                              (<<"appendToFile", "d/f.txt", c>>)>>, l, c0)
        /\ fs = [q \in Paths |-> IF l[q] = "none" THEN 0 ELSE Rank(q)]
        /\ kind = [i \in Inodes |->
                    IF \E q \in Paths : Rank(q) = i /\ l[q] # "none"
                        THEN l[CHOOSE q \in Paths : Rank(q) = i] ELSE "free"]
        /\ data = [i \in Inodes |->
                    IF i \in {Rank("a.txt"), Rank("d/f.txt")} /\ l["a.txt"] = "file"
                        THEN c0 ELSE <<>>]
        /\ lockEx = [i \in Inodes |-> 0]
    /\ build = "fileops.c"
    /\ InitProcs

\* the second invocation is made with the other build, when the first has
\* returned
StartPair ==
    \/ runs = 0 /\ StartScript(1)
    \/ /\ runs = 1 /\ proc[1].pc = "done"
       /\ build = "part_001"
       /\ StartScript(2)

\* the executable is replaced by the one built from part_001
Rebuild ==
    /\ runs = 1 /\ proc[1].pc = "done"
    /\ build = "fileops.c"
    /\ build' = "part_001"
    /\ UNCHANGED <<fsvars, now, env, runs, succ, proc>>

NextPair ==
    \/ StartPair \/ Rebuild
    \/ \E p \in Procs :
        \/ InitLogging(p) \/ log_operation(p)
        \/ append_to_file_inproc(p) \/ append_to_file_child(p)

SpecPair == InitPair /\ [][NextPair]_vars

----------------------------------------------------------------------------
(* SpecFrame: the operations that only read, beside one that writes, in a  *)
(* working directory whose log is a file, is absent or is a directory      *)

FrameCommands ==
    {<<"readFile", "a.txt", <<>>>>, <<"readFile", LOG_FILE, <<>>>>, <<"readFile", "d", <<>>>>,
     <<"listDir", "d", <<>>>>, <<"listDir", "a.txt", <<>>>>,
     <<"listFilesByExtension", "d", <<".", "t", "x", "t">>>>,
     <<"createFile", "d/f.txt", <<>>>>}

InitFrame ==
    /\ \E l \in {Dir("file", "file", "dir", "file"), Dir("dir", "file", "dir", "file"),
                  Dir("none", "file", "dir", "none")} :
        InitFs(l, <<"x">>) /\ scen = Scenario(<<>>, l, <<"x">>)
    /\ build = "fileops.c"
    /\ InitProcs

StartFrame(p) ==
    /\ runs < MaxRuns
    /\ \/ StartArgv(p, <<"showLogs">>)
       \/ \E c \in FrameCommands : Start(p, c[1], c[2], c[3])

NextFrame ==
    \E p \in Procs :
        \/ StartFrame(p) \/ InitLogging(p) \/ M_Args(p) \/ Execute(p) \/ Exit(p)
        \/ show_logs(p) \/ log_operation(p)
        \/ read_file(p) \/ list_directory(p) \/ list_files_by_extension(p)
        \/ create_file(p)

SpecFrame == InitFrame /\ [][NextFrame]_vars

----------------------------------------------------------------------------
(* SpecFormat: string_format on each format, size and arguments *)

FormatChars == {"a", "%", "s", "d"}

\* an argument, taken as a string by %s and as an int by %d
FormatArgs ==
    {[s |-> "NULL", d |-> 0], [s |-> <<"b", "c">>, d |-> -7],
     [s |-> <<"b">>, d |-> 12], [s |-> <<>>, d |-> INT_MIN]}

InitFormat ==
    /\ InitFs(Dir("none", "none", "none", "none"), <<>>)
    /\ scen = Scenario(<<>>, Dir("none", "none", "none", "none"), <<>>)
    /\ build = "fileops.c"
    /\ now = 0 /\ runs = 0 /\ succ = 0
    /\ proc = [p \in Procs |-> Idle]
    /\ parser = ParserIdle
    /\ mem = MemIdle
    /\ lister = ListerIdle
    /\ \E n \in 0..MaxFormat, size \in 0..MaxSize :
        \E f \in [1..n -> FormatChars], args \in [1..(MaxFormat \div 2) -> FormatArgs] :
            strfmt = [FmtIdle EXCEPT !.pc = "entry", !.size = size, !.format = f,
                                     !.args = args]

NextFormat == string_format

SpecFormat == InitFormat /\ [][NextFormat]_vars

----------------------------------------------------------------------------
(* SpecReaddir: the child of list_directory on each directory stream *)

InitReaddir ==
    /\ InitFs(Dir("none", "none", "none", "none"), <<>>)
    /\ scen = Scenario(<<>>, Dir("none", "none", "none", "none"), <<>>)
    /\ build = "fileops.c"
    /\ now = 0 /\ runs = 0 /\ succ = 0
    /\ proc = [p \in Procs |-> Idle]
    /\ parser = ParserIdle
    /\ mem = MemIdle
    /\ strfmt = FmtIdle
    /\ \E s \in Streams : lister = [ListerIdle EXCEPT !.pc = "readdir", !.stream = s]

NextReaddir == LD_Readdir \/ LD_Closedir

SpecReaddir == InitReaddir /\ [][NextReaddir]_vars

----------------------------------------------------------------------------
(* Properties                                                              *)

\* every command line of the scenario has run and ended
AllDone == runs = Len(scen.cmds) /\ \A p \in Procs : proc[p].pc = "idle"

\* invocations that have returned success so far
Successes == succ + Cardinality({p \in Procs : proc[p].pc = "done" /\ proc[p].result = "ok"})

\* the invocation of p started with no other running, and none started since
Sequential(p) == proc[p].alone /\ runs = proc[p].ord

IsPrefix(s, t) == Len(s) <= Len(t) /\ SubSeq(t, 1, Len(s)) = s

\* the bytes of the log file; none when there is no such file
LogContent == IF file_exists(LOG_FILE) THEN data[fs[LOG_FILE]] ELSE <<>>

\* the messages the operations pass to log_operation
AllMessages ==
    UNION {{<<"File \"", q, "\" created successfully.">>,
            <<"File \"", q, "\" read successfully.">>,
            <<"Content appended to file \"", q, "\" successfully.">>,
            <<"Content appended to file \"", q, "\".">>,
            <<"File \"", q, "\" deleted successfully.">>,
            <<"Directory \"", q, "\" created successfully.">>,
            <<"Listed contents of directory \"", q, "\".">>,
            <<"Listed files with extension \"", <<".", "t", "x", "t">>,
              "\" in directory \"", q, "\".">>,
            <<"Directory \"", q, "\" deleted successfully.">>} : q \in Paths}

\* the entries log_operation can write: "[timestamp] message\n"
AllEntries ==
    {<<"[", ClockText(t), "]", " ">> \o m \o <<"\n">> : t \in 0..MaxClock, m \in AllMessages}

RECURSIVE IsEntries(_)
\* s is a concatenation of complete entries
IsEntries(s) ==
    \/ s = <<>>
    \/ \E e \in AllEntries :
        /\ IsPrefix(e, s)
        /\ IsEntries(SubSeq(s, Len(e) + 1, Len(s)))

\* p is in log_operation between flock(LOCK_EX) and flock(LOCK_UN)
InLogCritical(p) == proc[p].pc \in {"lo_ts", "lo_write", "lo_unlock"}

\* C1: a process in log_operation holds the exclusive lock of the log file
\* from before it takes its timestamp until after its single write, no two
\* processes are there at once, and with any number of processes logging
\* concurrently the log is at every moment a concatenation of complete
\* entries, each written by one call.
C1_LogLockedAndWhole ==
    /\ \A p \in Procs : InLogCritical(p) =>
        /\ proc[p].fd # 0
        /\ proc[p].fd = fs[LOG_FILE]
        /\ lockEx[proc[p].fd] = p
        /\ \A q \in Procs \ {p} : ~InLogCritical(q)
        /\ proc[p].pc = "lo_ts" => proc[p].logged = <<>>
        /\ proc[p].pc = "lo_write" => proc[p].logged = <<>> /\ proc[p].lts <= now
        /\ proc[p].pc = "lo_unlock" => Len(proc[p].logged) = 1
    /\ IsEntries(LogContent)

\* C1 witness: one process has written its entry and still holds the lock
\* while the other waits in flock for the same file
C1_Witness ==
    \E p, q \in Procs :
        /\ p # q
        /\ proc[p].pc = "lo_unlock"
        /\ proc[q].pc = "lo_lock"
        /\ proc[q].fd = proc[p].fd
        /\ Len(LogContent) > 0

\* C3: (as the specification states it) across any sequence of commands,
\* including those whose path names the log file, the content of the log
\* only grows: each state's log content is a prefix of the next one's.
C3_LogOnlyGrows == [][IsPrefix(LogContent, LogContent')]_vars

\* the log message each operation is specified to write on success
ExpectedLogMsg(op, path, arg) ==
    CASE op = "createFile" -> {<<"File \"", path, "\" created successfully.">>}
      [] op = "readFile" -> {<<"File \"", path, "\" read successfully.">>}
      [] op = "appendToFile" ->
            {<<"Content appended to file \"", path, "\" successfully.">>,
             <<"Content appended to file \"", path, "\".">>}
      [] op = "deleteFile" -> {<<"File \"", path, "\" deleted successfully.">>}
      [] op = "createDir" -> {<<"Directory \"", path, "\" created successfully.">>}
      [] op = "listDir" -> {<<"Listed contents of directory \"", path, "\".">>}
      [] op = "listFilesByExtension" ->
            {<<"Listed files with extension \"", arg, "\" in directory \"", path, "\".">>}
      [] op = "deleteDir" -> {<<"Directory \"", path, "\" deleted successfully.">>}

\* C4 (as the specification states it): each of the eight operations, when
\* it returns success, has appended exactly one new entry to the log, made
\* of a timestamp, the operation's message naming the path, and a newline.
C4_AlwaysOneEntry ==
    \A p \in Procs :
        proc[p].pc = "done" /\ proc[p].result = "ok" =>
            /\ Len(proc[p].logged) = 1
            /\ \E t \in 0..now, m \in ExpectedLogMsg(proc[p].op, proc[p].path, proc[p].arg) :
                proc[p].logged[1] = <<"[", ClockText(t), "]", " ">> \o m \o <<"\n">>

\* the scenario repeats one operation on one path
IsSame(op) ==
    /\ Len(scen.cmds) > 0
    /\ \A k \in 1..Len(scen.cmds) : scen.cmds[k][1] = op /\ scen.cmds[k][2] = scen.cmds[1][2]

\* the path the scenario's first command names
ScenPath == scen.cmds[1][2]

RECURSIVE IsLinesOf(_, _)
\* s is a concatenation of lines, each a newline followed by one of the contents cs
IsLinesOf(s, cs) ==
    \/ s = <<>>
    \/ \E c \in cs :
        /\ IsPrefix(<<"\n">> \o c, s)
        /\ IsLinesOf(SubSeq(s, Len(c) + 2, Len(s)), cs)

\* the bytes now in the file the scenario names, after the first n
AfterPrefix(n) == SubSeq(data[fs[ScenPath]], n + 1, Len(data[fs[ScenPath]]))

\* C2 (as the specification states it): when concurrent processes run
\* appendToFile on one file, every call succeeds and the file ends with one
\* complete line per call, none holding bytes of two calls.
C2_AllAppendsSucceed ==
    IsSame("appendToFile") /\ AllDone =>
        /\ succ = Len(scen.cmds)
        /\ IsPrefix(scen.content, data[fs[ScenPath]])
        /\ Len(data[fs[ScenPath]]) = Len(scen.content) + 2 * Len(scen.cmds)
        /\ IsLinesOf(AfterPrefix(Len(scen.content)), {<<"x">>, <<"y">>})

\* C5 (as the specification states it): of the createFile invocations on one
\* path that does not exist, exactly one returns success.
C5_ExactlyOneCreate ==
    IsSame("createFile") /\ AllDone => succ = 1

\* C5 (amended): of the createFile invocations on one absent path other than
\* the log file, never more than one has returned success and exactly one
\* has when all have ended; one that starts after the successful one has
\* ended fails with "already exists".  On the log file's own path every
\* invocation fails with "already exists", main having created the log.
C5_OneCreateUnlessLog ==
    IsSame("createFile") =>
        /\ ScenPath # LOG_FILE =>
            /\ Successes <= 1
            /\ AllDone => succ = 1
            /\ \A p \in Procs :
                proc[p].pc = "done" /\ proc[p].prior = 1 =>
                    /\ proc[p].result = "fail"
                    /\ proc[p].err = "Error: File \"%s\" already exists.\n"
        /\ ScenPath = LOG_FILE =>
            /\ Successes = 0
            /\ \A p \in Procs : proc[p].pc = "done" =>
                proc[p].err = "Error: File \"%s\" already exists.\n"
        /\ \A p \in Procs : proc[p].pc = "done" /\ proc[p].result = "fail" =>
            proc[p].err \in {"Error: File \"%s\" already exists.\n",
                             "Error: Could not create file \"%s\": %s\n"}

\* C5 witness: two creators raced; one has created the file and returned
\* success, the other lost in open(O_CREAT | O_EXCL)
C5_Witness ==
    /\ IsSame("createFile")
    /\ ScenPath # LOG_FILE
    /\ \E p, q \in Procs :
        /\ proc[p].pc = "done" /\ proc[p].result = "ok"
        /\ proc[q].pc = "done" /\ proc[q].result = "fail"
        /\ proc[q].err = "Error: Could not create file \"%s\": %s\n"

\* C6 (as the specification states it): of the deleteFile invocations on one
\* existing file, exactly one returns success, with one log entry, and the
\* others fail; one that runs after the successful one fails "not found".
C6_ExactlyOneDelete ==
    IsSame("deleteFile") =>
        /\ Successes <= 1
        /\ AllDone => succ = 1
        /\ \A p \in Procs :
            /\ proc[p].pc = "done" /\ proc[p].result = "ok" => Len(proc[p].logged) = 1
            /\ proc[p].pc = "done" /\ proc[p].prior = 1 =>
                /\ proc[p].result = "fail"
                /\ proc[p].err = "Error: File \"%s\" not found.\n"

\* the scenario is createFile and then readFile
IsCreateRead ==
    /\ Len(scen.cmds) = 2
    /\ scen.cmds[1][1] = "createFile"
    /\ scen.cmds[2][1] = "readFile"

C8_SeparatorOnlyWhenNeeded ==
    /\ Len(scen.cmds) = 1
    /\ scen.cmds[1][1] = "appendToFile"
    /\ ScenPath # LOG_FILE
    /\ scen.cmds[1][3] # <<>>
    => \A p \in Procs : proc[p].pc = "done" =>
        /\ proc[p].result = "ok"
        /\ data[fs[ScenPath]] =
            IF scen.content = <<>> \/ scen.content[Len(scen.content)] = "\n"
                THEN scen.content \o scen.cmds[1][3]
                ELSE scen.content \o <<"\n">> \o scen.cmds[1][3]

\* the scenario is createFile and then AppendCount times the same appendToFile
IsCreateAppends ==
    /\ Len(scen.cmds) = 1 + AppendCount
    /\ scen.cmds[1][1] = "createFile"
    /\ scen.cmds[2][1] = "appendToFile"

RECURSIVE Times(_, _)
\* k copies of s
Times(k, s) == IF k = 0 THEN <<>> ELSE s \o Times(k - 1, s)

\* after the k-th append has returned the file is the creation timestamp
\* followed by k times a newline and the content
TimestampThenLines ==
    \A p \in Procs :
        proc[p].pc = "done" /\ proc[p].op = "appendToFile" =>
            /\ proc[p].result = "ok"
            /\ \E t \in 0..now :
                data[fs[ScenPath]] =
                    <<"[", ClockText(t), "]">> \o Times(runs - 1, <<"\n">> \o scen.cmds[2][3])

\* C9 (as the specification states it): after createFile on an absent path
\* and k appends of the same content X, the file is the timestamp followed
\* by k times (newline, X).
C9_AnyContent == IsCreateAppends => TimestampThenLines

\* C9 (amended): the same, for content X that is not empty and does not end
\* with a newline.
C9_ContentWithoutNewline ==
    /\ IsCreateAppends
    /\ scen.cmds[2][3] # <<>>
    /\ scen.cmds[2][3][Len(scen.cmds[2][3])] # "\n"
    => TimestampThenLines

\* C9 witness: the last of the appends has returned, in the build that
\* reads the last byte to decide on the separator
C9_Witness ==
    /\ IsCreateAppends
    /\ scen.cmds[2][3] = <<"x", "y">>
    /\ build = "part_001"
    /\ runs = 1 + AppendCount
    /\ \E p \in Procs : proc[p].pc = "done" /\ proc[p].result = "ok"

\* a step of deleteDir by p changes the name space only by removing its own
\* directory, in rmdir, when the directory has no entry
DeleteDirStep(p) ==
    /\ proc[p].op = "deleteDir"
    /\ proc[p].pc \in {"dd_check", "dd_opendir", "dd_scan", "dd_rmdir", "dd_wait"}
    /\ proc'[p] # proc[p]
    => \A q \in Paths : fs'[q] # fs[q] =>
        /\ q = proc[p].path
        /\ proc[p].pc = "dd_rmdir"
        /\ kind[fs[q]] = "dir"
        /\ Entries(fs[q]) = {}
        /\ fs'[q] = 0

\* what deleteDir has reported when it has returned
DeleteDirOutcome(p) ==
    /\ proc[p].empty = FALSE =>
        /\ proc[p].status = "exit1"
        /\ proc[p].err = "Error: Directory \"%s\" is not empty.\n"
    /\ proc[p].pc = "done" /\ proc[p].result = "fail" =>
        proc[p].err \in
            {"Error: Directory \"%s\" not found.\n",
             "Error: Could not open directory \"%s\": %s\n",
             "Error: Directory \"%s\" is not empty.\n",
             "Error: Could not delete directory \"%s\": Directory not empty\n",
             "Error: Could not delete directory \"%s\": No such file or directory\n",
             "Error: Could not delete directory \"%s\": Not a directory\n"}
    /\ proc[p].pc = "done" /\ Sequential(p) =>
        /\ proc[p].result = "ok" => fs[proc[p].path] = 0
        /\ proc[p].result = "fail" =>
            \/ /\ proc[p].err = "Error: Directory \"%s\" not found.\n"
               /\ ~directory_exists(proc[p].path)
            \/ /\ proc[p].err = "Error: Directory \"%s\" is not empty.\n"
               /\ directory_exists(proc[p].path)
               /\ Entries(fs[proc[p].path]) # {}

\* C10: deleteDir removes a directory only when it has no entry, and removes
\* nothing else.  Run alone on a directory with an entry it fails with
\* "is not empty" and the directory stays; run alone on an existing empty
\* directory (so also once the entry has been removed) it succeeds.  When
\* an entry is created between its scan and its rmdir, rmdir fails, the
\* directory stays and the error reads "Directory not empty".
C10_OnlyEmptyDirRemoved ==
    /\ [][\A p \in Procs : DeleteDirStep(p)]_vars
    /\ [](\A p \in Procs : proc[p].op = "deleteDir" => DeleteDirOutcome(p))

\* C10 witness: the scan found the directory empty, an entry was created
\* before rmdir, and deleteDir has failed leaving the directory and the entry
C10_Witness ==
    \E p \in Procs :
        /\ proc[p].op = "deleteDir"
        /\ proc[p].pc = "done"
        /\ proc[p].empty
        /\ proc[p].err = "Error: Could not delete directory \"%s\": Directory not empty\n"
        /\ directory_exists(proc[p].path)
        /\ Entries(fs[proc[p].path]) # {}

\* the existence precondition of p's operation does not hold now
PreconditionViolated(p) ==
    CASE proc[p].op \in {"createFile", "createDir"} -> StatOk(proc[p].path)
      [] proc[p].op \in {"readFile", "appendToFile", "deleteFile"} -> ~file_exists(proc[p].path)
      [] proc[p].op \in {"listDir", "listFilesByExtension", "deleteDir"} ->
            ~directory_exists(proc[p].path)
      [] OTHER -> FALSE

\* the error messages of a violated existence precondition
PreconditionErrors(op) ==
    CASE op = "createFile" -> {"Error: File \"%s\" already exists.\n",
                               "Error: Could not create file \"%s\": %s\n"}
      [] op = "createDir" -> {"Error: Directory \"%s\" already exists.\n",
                              "Error: Could not create directory \"%s\": %s\n"}
      [] op \in {"readFile", "deleteFile"} -> {"Error: File \"%s\" not found.\n"}
      [] op = "appendToFile" -> {"Error: File \"%s\" not found.\n",
                                 "Error: File \"%s\" does not exist\n"}
      [] OTHER -> {"Error: Directory \"%s\" not found.\n"}

\* p is at its operation's existence test, or at the creating call that
\* follows it
AtPrecondition(p) ==
    /\ proc[p].op \in Ops
    /\ \/ proc[p].pc = FirstPc(proc[p].op)
       \/ proc[p].pc \in {"cf_open", "cd_mkdir"}

\* the step the operation takes when its precondition is violated: nothing
\* of the file system changes and the operation returns failure, having
\* logged nothing (createFile and createDir on a target of the other kind
\* pass their test first and fail in open or mkdir)
PreconditionStep(p) ==
    AtPrecondition(p) /\ PreconditionViolated(p) /\ proc'[p] # proc[p] =>
        /\ fs' = fs /\ kind' = kind /\ data' = data /\ lockEx' = lockEx
        /\ \/ /\ proc'[p].pc = "done"
              /\ proc'[p].result = "fail"
              /\ proc'[p].err \in PreconditionErrors(proc[p].op)
              /\ proc'[p].logged = <<>>
              /\ proc'[p].logrc = "none"
              /\ proc'[p].out = <<>>
           \/ /\ proc[p].pc \in {"cf_check", "cd_check"}
              /\ proc'[p].pc \in {"cf_open", "cd_mkdir"}
              /\ proc'[p].logged = <<>>

\* C11: an operation whose existence precondition is violated (createFile
\* or createDir on an existing target; the six others on a missing target)
\* returns failure with the matching message, changes no file or directory
\* and appends no log entry; an invocation that has failed has logged nothing.
C11_PreconditionNoEffect ==
    /\ [][\A p \in Procs : PreconditionStep(p)]_vars
    /\ [](\A p \in Procs : proc[p].pc = "done" /\ proc[p].result = "fail" =>
            proc[p].logged = <<>> /\ proc[p].logrc = "none")

\* C11 witness: deleteDir has failed on a missing directory and createFile
\* on an existing file
C11_Witness ==
    \E p, q \in Procs :
        /\ proc[p].pc = "done" /\ proc[p].op = "deleteDir"
        /\ proc[p].err = "Error: Directory \"%s\" not found.\n"
        /\ proc[q].pc = "done" /\ proc[q].op = "createFile"
        /\ proc[q].err = "Error: File \"%s\" already exists.\n"

\* a step of p after its log_operation has failed changes nothing of the
\* file system and leads to the operation's success
AfterLogFailure(p) ==
    /\ proc[p].pc = "lo_open" /\ proc'[p].logrc = "fail" =>
        /\ UNCHANGED fsvars
        /\ proc'[p].pc = proc[p].ret
        /\ proc'[p].pc # "done"
    /\ proc[p].logrc = "fail" /\ proc[p].pc # "done" /\ proc'[p] # proc[p] =>
        /\ UNCHANGED fsvars
        /\ proc'[p].pc \in {"done", "ac_wait"}
        /\ proc'[p].pc = "done" => proc'[p].result = "ok"
        /\ proc'[p].pc = "ac_wait" => proc'[p].status = "exit0"
    /\ proc[p].logrc = "fail" /\ proc[p].pc = "done" /\ proc'[p] # proc[p] =>
        /\ UNCHANGED fsvars
        /\ succ' = succ + 1

RECURSIVE RefScan(_, _, _, _, _)
\* the reference two-state tokenizer at character k of line s, with the
\* characters cur of the token in progress, the quoted state inq and the
\* tokens toks found so far
RefScan(s, k, cur, inq, toks) ==
    IF k > Len(s) \/ s[k] = "\n"
        THEN IF cur = <<>> THEN toks ELSE Append(toks, cur)
        ELSE IF s[k] = "\""
            THEN RefScan(s, k + 1, cur, ~inq, toks)
            ELSE IF s[k] = " " /\ ~inq
                THEN RefScan(s, k + 1, <<>>, inq,
                             IF cur = <<>> THEN toks ELSE Append(toks, cur))
                ELSE RefScan(s, k + 1, Append(cur, s[k]), inq, toks)

\* the tokens of the input line
RefTokens == RefScan(parser.input, 1, <<>>, FALSE, <<>>)

\* parse_command has ended, by returning or by the death of the process
ParserEnded == parser.pc \in {"returned", "crashed"}

\* the first n slots hold the first n reference tokens
HoldsTokens(n) ==
    \A k \in 0..(n - 1) : parser.args[k].live /\ parser.args[k].buf = RefTokens[k + 1]

\* C13 (as the specification states it): for every input line
\* parse_command returns a count of at most 4 and touches only slots 0..3
\* of the argument array; a line of more than 4 tokens gives exactly 4, the
\* first four tokens, the rest being ignored without error.
C13_AtMostFourSlots ==
    ParserEnded =>
        /\ parser.pc = "returned"
        /\ parser.ret <= 4
        /\ parser.oob = {}
        /\ Len(RefTokens) > 4 => parser.ret = 4 /\ HoldsTokens(4)

\* C14 (as the specification states it): for every input line of at most 4
\* tokens parse_command returns exactly the tokens of the reference
\* tokenizer: quotes toggle and are not copied, an unquoted space ends a
\* token, empty tokens are dropped, nothing from the first newline on is read.
C14_SameAsReference ==
    ParserEnded /\ Len(RefTokens) <= 4 =>
        /\ parser.pc = "returned"
        /\ parser.oob = {}
        /\ parser.ret = Len(RefTokens)
        /\ HoldsTokens(Len(RefTokens))

\* the number of arguments the specification gives each command
Arity(cmd) ==
    CASE cmd \in {"listFilesByExtension", "appendToFile"} -> 2
      [] cmd \in {"showLogs", "exit", "quit", "help"} -> 0
      [] OTHER -> 1

\* execute_command was given a command of the closed set with a number of
\* arguments that is not its arity
ArityViolated(p) ==
    /\ proc[p].argv # <<>>
    /\ Len(proc[p].argv) <= MAX_ARGS
    /\ proc[p].argv[1] \in Commands
    /\ Len(proc[p].argv) - 1 # Arity(proc[p].argv[1])

\* C15: a command of the closed set given a number of arguments other than
\* its arity is reported as a failure by execute_command, and no part of
\* the operation is performed: nothing is printed to standard output,
\* nothing is logged and no termination is requested
C15_ArityEnforced ==
    \A p \in Procs :
        proc[p].pc = "done" /\ ArityViolated(p) =>
            /\ proc[p].result = "fail"
            /\ proc[p].out = <<>>
            /\ proc[p].logged = <<>>

\* execute_command was given a first token that is no command
UnknownInvoked(p) ==
    /\ proc[p].argv # <<>>
    /\ Len(proc[p].argv) <= MAX_ARGS
    /\ proc[p].argv[1] \notin Commands

\* the invocation has reported the unknown command and exits nonzero
UnknownReported(p) ==
    /\ proc[p].result = "fail"
    /\ proc[p].err = "Error: Unknown command '%s'\n"
    /\ MainStatus(ReturnValue(proc[p].result)) # 0

Malformed(p) ==
    /\ proc[p].argv # <<>>
    /\ \/ Len(proc[p].argv) > MAX_ARGS
       \/ proc[p].argv[1] \notin Commands
       \/ ArityViolated(p)

\* C17: the exit status is 0 exactly when the command's result is success
\* or a request to terminate (exit, quit, help, or no argument at all), and
\* nonzero for every reported failure and every malformed invocation
C17_ExitStatus ==
    \A p \in Procs :
        proc[p].pc = "done" =>
            LET status == MainStatus(ReturnValue(proc[p].result)) IN
            /\ status = 0 <=> proc[p].result \in {"ok", "exit"}
            /\ proc[p].argv = <<>> => status = 0
            /\ proc[p].result = "fail" \/ Malformed(p) => status # 0

\* C18: when SIGINT or SIGTERM arrives, at whatever point of main, every
\* argument string that was allocated has been freed exactly once when the
\* process has exited: none is freed twice and none is left allocated
C18_FreedExactlyOnce ==
    mem.pc = "exited" /\ mem.how \in {"signal", "abort"} =>
        \A b \in 1..MAX_ARGS : mem.heap[b] \in {"unalloc", "freed"}

\* p is in show_logs with the buffer it has read
HasRead(p) ==
    /\ proc[p].op = "showLogs"
    /\ \/ proc[p].pc \in {"sl_unlock", "sl_close", "sl_print"}
       \/ proc[p].pc = "done" /\ proc[p].buf # <<>>

\* C19: show_logs running while other processes call log_operation holds
\* the shared lock from before it takes the size until after it has read;
\* no writer is between its lock and unlock meanwhile; the buffer it reads
\* is the whole log content of that instant, which is a concatenation of
\* complete entries, and stays a prefix of the log afterwards
C19_ShowReadsWholeEntries ==
    \A p \in Procs :
        /\ proc[p].pc \in {"sl_fstat", "sl_read", "sl_unlock", "sl_eunlock"} =>
            /\ proc[p].shlock = proc[p].fd /\ proc[p].fd = fs[LOG_FILE]
            /\ lockEx[proc[p].fd] = 0
            /\ \A q \in Procs : ~InLogCritical(q)
        /\ proc[p].pc = "sl_read" => proc[p].size = Len(LogContent)
        /\ proc[p].pc = "sl_unlock" => proc[p].buf = LogContent
        /\ HasRead(p) =>
            /\ IsEntries(proc[p].buf)
            /\ IsPrefix(proc[p].buf, LogContent)

\* show_logs has read a log that holds an entry while another process
\* waits in log_operation for the lock
C19_Witness ==
    \E p, q \in Procs :
        /\ proc[p].pc = "sl_unlock" /\ Len(proc[p].buf) > 0
        /\ proc[q].pc = "lo_lock" /\ proc[q].fd = proc[p].fd

\* the first line of s, without its newline; the whole of s when it has none
RECURSIVE FirstLine(_)
FirstLine(s) ==
    IF s = <<>> \/ Head(s) = NL THEN <<>> ELSE <<Head(s)>> \o FirstLine(Tail(s))

\* a line of the form "[YYYY-MM-DD HH:MM:SS] message"
IsLogLine(l) ==
    /\ Len(l) > 4
    /\ l[1] = "[" /\ l[2] \in {ClockText(t) : t \in 0..MaxClock} /\ l[3] = "]" /\ l[4] = " "

\* s is a sequence of such lines, each ended by its newline
RECURSIVE IsLogLines(_)
IsLogLines(s) ==
    \/ s = <<>>
    \/ LET l == FirstLine(s) IN
        /\ Len(l) < Len(s)
        /\ IsLogLine(l)
        /\ IsLogLines(SubSeq(s, Len(l) + 2, Len(s)))

\* C20: after any sequence of commands with any arguments every line of the
\* log has the form "[YYYY-MM-DD HH:MM:SS] message", one entry per line
C20_EveryLineAnEntry == IsLogLines(LogContent)

\* p leaves init_logging in this step
InitLoggingStep(p) == proc[p].pc = "init_logging" /\ proc'[p].pc # "init_logging"

\* C21: init_logging creates the log, empty, when it is absent and changes
\* nothing when the log exists, so that a second call leaves the state of
\* the first; whether it succeeds or fails the invocation goes on to its
\* command, and the exit status is that of the command's result
C21_InitLoggingContract ==
    /\ [][\A p \in Procs : InitLoggingStep(p) =>
            /\ fs[LOG_FILE] = 0 =>
                /\ fs'[LOG_FILE] # 0
                /\ kind'[fs'[LOG_FILE]] = "file"
                /\ data'[fs'[LOG_FILE]] = <<>>
                /\ \A q \in Paths \ {LOG_FILE} : fs'[q] = fs[q]
                /\ \A i \in Inodes \ {fs'[LOG_FILE]} : kind'[i] = kind[i] /\ data'[i] = data[i]
            /\ fs[LOG_FILE] # 0 => UNCHANGED <<fs, kind, data>>
            /\ UNCHANGED lockEx
            /\ proc'[p].result = "none"
            /\ proc'[p].pc = IF proc[p].op \in Ops THEN FirstPc(proc[p].op) ELSE "main_args"]_vars
    /\ [](\A p \in Procs : proc[p].pc = "done" =>
            (MainStatus(ReturnValue(proc[p].result)) = 0 <=> proc[p].result \in {"ok", "exit"}))

\* an invocation whose init_logging failed has run its command with success
C21_Witness ==
    \E p \in Procs :
        proc[p].pc = "done" /\ proc[p].initrc = "fail" /\ proc[p].result = "ok"

\* name ends with suffix, compared character by character
EndsWith(name, suffix) ==
    /\ Len(name) >= Len(suffix)
    /\ SubSeq(name, Len(name) - Len(suffix) + 1, Len(name)) = suffix

\* C22: listFilesByExtension lists exactly the entries of the directory
\* that are regular files and whose name ends with the suffix: none else
\* is listed and none of them is omitted
C22_ListsExactlySuffixed ==
    \A p \in Procs :
        proc[p].op = "listFilesByExtension" /\ proc[p].pc = "le_wait"
        /\ proc[p].status = "exit0" =>
            proc[p].listed =
                {e \in Entries(fs[proc[p].path]) :
                    kind[fs[e]] = "file" /\ EndsWith(Name(e), proc[p].arg)}

\* C23: an invocation with more than MAX_ARGS arguments, a wrong arity or
\* an unknown command is reported and fails before any operation is
\* attempted: it exits nonzero with an error message, prints nothing to
\* standard output and appends nothing to the log
C23_UsageErrorsRefused ==
    \A p \in Procs :
        proc[p].pc = "done" /\ Malformed(p) =>
            /\ MainStatus(ReturnValue(proc[p].result)) # 0
            /\ proc[p].err # "none"
            /\ proc[p].out = <<>>
            /\ proc[p].logged = <<>>
            /\ LogContent = proc[p].log0

\* C24: for every operation that runs in a child process, a child killed by
\* a signal makes the parent fail with the generic report of an abnormal
\* termination, which a child that exited with a nonzero status never gives
C24_AbnormalChildReported ==
    \A p \in Procs :
        proc[p].pc = "done" /\ proc[p].status \in {"killed", "exit1"} =>
            /\ proc[p].result = "fail"
            /\ proc[p].status = "killed" <=>
                 proc[p].err = "Error: Child process terminated abnormally\n"

\* what show_logs prints for a buffer: the header, the buffer, and a newline
\* only when the buffer lacks one
DumpOf(buffer) ==
    <<(<<"Operation Logs:\n">>), buffer>> \o
        (IF buffer # <<>> /\ buffer[Len(buffer)] # NL THEN <<(<<NL>>)>> ELSE <<>>)

\* p is a showLogs invocation that has ended
ShowDone(p) == proc[p].pc = "done" /\ proc[p].argv # <<>> /\ proc[p].argv[1] = "showLogs"

\* what every showLogs invocation does: no log at its stat gives "no logs",
\* a log of size zero gives "log is empty", otherwise the header and the
\* whole buffer are printed, with a newline only if the buffer lacks one
ShowLogsOutput(p) ==
    /\ proc[p].pc = "sl_open" => StatOk(LOG_FILE) \/ ~proc[p].alone \/ runs # proc[p].ord
    /\ ShowDone(p) /\ proc[p].result = "ok" =>
        \/ proc[p].out = <<(<<"No logs available.\n">>)>> /\ proc[p].buf = <<>>
        \/ proc[p].out = <<(<<"Log file is empty.\n">>)>> /\ proc[p].buf = <<>>
        \/ proc[p].out = DumpOf(proc[p].buf) /\ proc[p].buf # <<>>
    /\ ShowDone(p) /\ Sequential(p) /\ proc[p].loghad /\ proc[p].initrc = "ok" =>
        /\ proc[p].result = "ok"
        /\ proc[p].out = IF proc[p].log0 = <<>> THEN <<(<<"Log file is empty.\n">>)>>
                                             ELSE DumpOf(proc[p].log0)

C26_NullBeyondCount ==
    parser.pc = "returned" =>
        \A k \in 0..(MAX_ARGS - 1) :
            k >= parser.ret => ~parser.args[k].live /\ ~parser.g_args[k]

\* p writes result output to standard output in this step
WritesOutput(p) ==
    /\ proc[p].op \in Ops
    /\ proc'[p].pc # "idle"
    /\ proc'[p].out # proc[p].out

\* C27: an operation writes its result output only after its log entry has
\* been appended (or log_operation has failed): the steps come in the order
\* check, effect, log, report
C27_LogBeforeReport ==
    [][\A p \in Procs : WritesOutput(p) =>
            proc[p].logged # <<>> \/ proc[p].logrc = "fail"]_vars

\* the operation of p runs its work in a child process
Forks(p) ==
    \/ proc[p].op \in {"deleteFile", "listDir", "listFilesByExtension", "deleteDir"}
    \/ proc[p].op = "appendToFile" /\ build = "part_001"

\* C28: an operation that forks does not return while its child runs, its
\* waitpid returns a status only when the child has terminated, and it
\* returns success exactly when the child exited normally with status 0
C28_WaitsForChild ==
    \A p \in Procs : Forks(p) =>
        /\ proc[p].pc \in ChildPcs => proc[p].result = "none" /\ proc[p].status = "none"
        /\ proc[p].pc = WaitPc(proc[p].op) =>
            proc[p].result = "none" /\ proc[p].status \in {"exit0", "exit1", "killed"}
        /\ proc[p].pc = "done" =>
            (proc[p].result = "ok" <=> proc[p].status = "exit0")

\* a forking operation has returned failure after its child exited with a
\* nonzero status
C28_Witness ==
    \E p \in Procs :
        Forks(p) /\ proc[p].pc = "done" /\ proc[p].status = "exit1" /\ proc[p].result = "fail"

\* p holds no lock and no open descriptor
HoldsNothing(p) ==
    /\ proc[p].fd = 0
    /\ proc[p].shlock = 0
    /\ \A i \in Inodes : lockEx[i] # p

\* C29: when log_operation has returned to its caller, and when show_logs
\* or append_to_file has returned, with success or after the failure of
\* any system call, the process holds no lock on the file and no open
\* descriptor for it
C29_NothingHeldAtReturn ==
    \A p \in Procs :
        /\ proc[p].logrc # "none" /\ proc[p].pc = proc[p].ret => HoldsNothing(p)
        /\ proc[p].pc = "done" => HoldsNothing(p)

\* log_operation has returned after its write failed under the lock
C29_Witness ==
    \E p \in Procs :
        proc[p].pc = proc[p].ret /\ proc[p].logrc = "fail" /\ proc[p].fault = "write"

\* C30: show_logs writes nothing to standard output in a step it begins
\* with its shared lock held, so that the lock is never held across a write
\* that may block
C30_NoOutputUnderSharedLock ==
    [][\A p \in Procs : proc[p].shlock # 0 => proc'[p].out = proc[p].out]_vars

\* the child of p's appendToFile is at flock(fd, LOCK_EX | LOCK_NB) while
\* another process holds the exclusive lock of the target
Contended(p) ==
    /\ proc[p].pc = "ac_lock"
    /\ lockEx[proc[p].fd] \notin {0, p}

LockedMessage == "Error: Cannot write to \"%s\". File is locked or read-only.\n"

\* C31: in the child-process variant an append attempted while another
\* process holds the exclusive lock of the target does not wait: its lock
\* step can be taken at once, changes no file and no lock, appends no log
\* entry and makes the invocation return failure
C31_ContendedAppendFailsFast ==
    /\ [](\A p \in Procs : Contended(p) => ENABLED AC_Lock(p))
    /\ [][\A p \in Procs : Contended(p) /\ proc'[p] # proc[p] =>
            /\ proc'[p].pc = "ac_wait" /\ proc'[p].status = "exit1"
            /\ proc'[p].err = LockedMessage
            /\ UNCHANGED <<fs, kind, data, lockEx>>]_vars
    /\ [](\A p \in Procs : proc[p].op = "appendToFile" /\ proc[p].err = LockedMessage =>
            /\ proc[p].pc \in {"ac_wait", "done"}
            /\ proc[p].logged = <<>>
            /\ proc[p].pc = "done" => proc[p].result = "fail")

\* an append has returned failure for the lock while the holder of the
\* lock is still between its lock and its unlock
C31_Witness ==
    \E p, q \in Procs :
        /\ p # q
        /\ proc[p].op = "appendToFile" /\ proc[p].pc = "done"
        /\ proc[p].err = LockedMessage /\ proc[p].result = "fail"
        /\ fs[proc[p].path] # 0
        /\ lockEx[fs[proc[p].path]] = q

\* positions in the stream of the entries other than . and ..
RealEntries == {k \in 1..Len(lister.stream) : lister.stream[k].name \notin {".", ".."}}

\* positions in the output of the lines that name the entry at k
LinesOf(k) ==
    {n \in 1..Len(lister.out) :
        Len(lister.out[n]) = 3 /\ lister.out[n][2] = lister.stream[k].name}

\* C32: listDir prints the "(empty directory)" marker if and only if the
\* directory has no entries other than . and ..; otherwise it prints every
\* such entry exactly once, tagged [DIR] exactly when it is a directory
C32_MarkerIffEmpty ==
    lister.pc = "exited" =>
        /\ (\E n \in 1..Len(lister.out) : lister.out[n] = EmptyMarker) <=> RealEntries = {}
        /\ \A k \in RealEntries :
            /\ Cardinality(LinesOf(k)) = 1
            /\ \A n \in LinesOf(k) :
                lister.out[n][1] = "  [DIR] " <=> lister.stream[k].st = "dir"

\* C33: for every input line of up to MAX_INPUT_SIZE - 1 characters
\* parse_command never writes a token character or its terminator at an
\* index of MAX_ARG_SIZE or more of a token buffer
C33_WritesWithinBuffer == parser.over = {}

\* p's createFile and q's appendToFile name the same path and have both
\* returned success, and no other invocation has been made
CreateAndAppendDone(p, q) ==
    /\ runs = 2
    /\ proc[p].op = "createFile" /\ proc[q].op = "appendToFile"
    /\ proc[p].path = proc[q].path
    /\ proc[p].pc = "done" /\ proc[p].result = "ok"
    /\ proc[q].pc = "done" /\ proc[q].result = "ok"

\* C34: if a createFile on a path and a concurrent appendToFile of a content
\* on the same path both report success, the final content of the file is
\* the creation timestamp followed by the separator and the content
C34_SeedingWriteKept ==
    \A p, q \in Procs :
        CreateAndAppendDone(p, q) =>
            /\ file_exists(proc[p].path)
            /\ data[fs[proc[p].path]] = Timestamp(proc[p].ts) \o <<NL>> \o proc[q].arg

\* the target of p's operation is as the scenario's working directory had
\* it: there or not, a file with its first content, a directory with its
\* first entries
TargetAsBefore(p) ==
    LET q == proc[p].path IN
    /\ fs[q] # 0 <=> scen.layout[q] # "none"
    /\ scen.layout[q] = "file" =>
        /\ kind[fs[q]] = "file"
        /\ data[fs[q]] = IF q = "a.txt" THEN scen.content ELSE <<>>
    /\ scen.layout[q] = "dir" =>
        /\ kind[fs[q]] = "dir"
        /\ \A c \in Paths : Parent(c) = q => (fs[c] # 0 <=> scen.layout[c] # "none")

\* C35: whenever an operation returns failure, for whatever reason (a
\* precondition, an I/O error, a child interrupted or killed), its target
\* has the same existence and the same content as before the call
C35_FailureLeavesTarget ==
    \A p \in Procs :
        proc[p].pc = "done" /\ proc[p].result = "fail" /\ proc[p].ord = 1 /\ runs = 1 =>
            TargetAsBefore(p)

\* the locks p holds: exclusive ones and its shared one
LocksHeld(p) == {i \in Inodes : lockEx[i] = p \/ proc[p].shlock = i}

\* p is in a blocking flock call
WaitsForLock(p) == proc[p].pc \in {"af_lock", "lo_lock", "sl_lock"}

\* C36: no process ever holds the lock of a target file and the lock of
\* the log at once (it holds one lock at most), nor waits for a lock while
\* it holds one; and, every process running on and every lock granted
\* fairly, every invocation ends
C36_NoDeadlock ==
    /\ [](\A p \in Procs :
            /\ Cardinality(LocksHeld(p)) <= 1
            /\ WaitsForLock(p) => LocksHeld(p) = {})
    /\ \A p \in Procs : proc[p].pc # "idle" ~> proc[p].pc = "idle"

\* one process waits for the lock of the log that another holds, which has
\* itself held the lock of its target before
C36_Witness ==
    \E p, q \in Procs :
        /\ proc[p].pc = "lo_lock" /\ lockEx[proc[p].fd] = q
        /\ proc[q].op = "appendToFile" /\ proc[q].path = "a.txt"

\* p's readFile of a.txt has returned success and q's appendToFile on
\* a.txt is the only other invocation made
ReadBesideAppend(p, q) ==
    /\ runs = 2
    /\ scen.layout["a.txt"] = "file"
    /\ proc[p].op = "readFile" /\ proc[p].path = "a.txt"
    /\ proc[p].pc = "done" /\ proc[p].result = "ok"
    /\ proc[q].op = "appendToFile" /\ proc[q].path = "a.txt"

\* C37: readFile outputs content equal to the file's content either before
\* or after each concurrent appendToFile: never an append's separator
\* newline without the appended content, nor part of the appended content
C37_ReadSeesWholeAppends ==
    \A p, q \in Procs :
        ReadBesideAppend(p, q) =>
            proc[p].buf \in {scen.content, scen.content \o <<NL>> \o proc[q].arg}

\* both invocations of the pair have returned
PairDone == proc[1].pc = "done" /\ proc[2].pc = "done"

\* a log message without the file name substituted in it
MessageForm(m) == IF Len(m) = 3 THEN <<m[1], m[3]>> ELSE m

\* C38: the two append_to_file implementations are equivalent in
\* sequential use: for every prior file content and appended string they
\* yield the same final file content, the same result and the same log
\* message
C38_AppendsEquivalent ==
    PairDone =>
        /\ proc[1].result = proc[2].result
        /\ fs["a.txt"] # 0 => data[fs["a.txt"]] = data[fs["d/f.txt"]]
        /\ MessageForm(proc[1].logmsg) = MessageForm(proc[2].logmsg)

ReadingOps == {"readFile", "listDir", "listFilesByExtension"}

\* p takes a step of read_file, list_directory, list_files_by_extension or
\* show_logs, or of the log_operation one of them has called
ReadOnlyStep(p) ==
    /\ proc[p].op \in ReadingOps \cup {"showLogs"}
    /\ proc[p].pc \notin {"idle", "init_logging", "done"}
    /\ proc'[p] # proc[p]

\* every name stands for what it stood for, every file holds what it held
SameTree ==
    \A q \in Paths :
        /\ fs'[q] = fs[q]
        /\ fs[q] # 0 => kind'[fs[q]] = kind[fs[q]] /\ data'[fs[q]] = data[fs[q]]

\* the step appends one entry with p's message to the log, its only change
AppendsEntry(p) ==
    /\ proc[p].op \in ReadingOps
    /\ proc[p].logged = <<>>
    /\ proc[p].fd = fs[LOG_FILE]
    /\ \A q \in Paths :
        /\ fs'[q] = fs[q]
        /\ fs[q] # 0 =>
            /\ kind'[fs[q]] = kind[fs[q]]
            /\ data'[fs[q]] = IF q = LOG_FILE
                                 THEN data[fs[q]] \o LogEntry(proc[p].lts, proc[p].logmsg)
                                 ELSE data[fs[q]]

\* no step of the four operations changes a file or a directory, but for
\* the one write of log_operation
ReadOnlyFrame ==
    [][\A p \in Procs : ReadOnlyStep(p) =>
            IF proc[p].pc = "lo_write" THEN AppendsEntry(p) ELSE SameTree]_vars

C40_FormatWithinBuffer ==
    strfmt.size >= 1 =>
        /\ Len(strfmt.buffer) + (IF strfmt.terminated THEN 1 ELSE 0) <= strfmt.size
        /\ strfmt.pc = "returned" =>
            /\ strfmt.terminated
            /\ strfmt.ret = Len(strfmt.buffer)
            /\ strfmt.ret <= strfmt.size - 1

\* a call has returned with a negative number cut off at the end of the
\* buffer
C40_Witness ==
    /\ strfmt.pc = "returned" /\ strfmt.ret = strfmt.size - 1
    /\ strfmt.size >= 2
    /\ strfmt.buffer[strfmt.ret] = "-"
    /\ strfmt.i < Len(strfmt.format)

=============================================================================
